---- MODULE Spec2Model ----
(***************************************************************************)
(* Verification model of the face-vital backend: the vital-signs pipeline  *)
(* (services/vitalSignsProcessor.js, services/spO2Processor.js), the       *)
(* report generator (services/reportGenerator.js) and the request handler  *)
(* (controllers/videoController.js).                                       *)
(*                                                                         *)
(* JavaScript numbers are modelled as exact reals of the form q*sqrt(r)    *)
(* (q rational, r a squarefree natural number) together with NaN,          *)
(* +Infinity, -Infinity, -0 and the non-number values null and undefined,  *)
(* with the IEEE-754 rules for the special values.  Where the              *)
(* rounding of binary64 decides an outcome (the sum of the confidence      *)
(* weights 0.6 and 0.3 against the threshold 0.8, the quality score        *)
(* 0.4 + 0.2 against the threshold 0.6) the binary64 operations are        *)
(* modelled bit-exactly on integers counted in units of 2^-54.             *)
(***************************************************************************)
EXTENDS Integers, Sequences, FiniteSets, TLC

VARIABLES
  pending,      \* calls still to make: a sequence of [f |-> name, x |-> argument]
  fn,           \* name of the function applied last ("" before any call)
  arg,          \* its argument
  ret,          \* its result
  prev,         \* <<>> or <<[arg |-> .., ret |-> ..]>>: the call before this one
  pc,           \* the statement of analyzeVideo / processVitalSigns to run next
  frames,       \* the frame buffers ffmpeg extracts from the uploaded video
  tensors,      \* analyzeVideo's frameTensors: the tensors decoded from them
  liveTensors,  \* number of tensors allocated and not yet disposed
  loc,          \* the locals assigned so far (name :> value)
  frame,        \* the locals of the running call of calculateSpO2
  raised,       \* "none", or the statement whose exception reached the handler
  spO2Fault,    \* "none", or the step of calculateSpO2 that threw
  response,     \* <<>>, or the response sent: [status |-> .., body |-> ..]
  served,       \* the requests served before this one: their context, bundle and response
  clock,        \* the system clock, in milliseconds
  rng           \* the value the next Math.random() returns

fnVars == <<pending, fn, arg, ret, prev>>

reqVars == <<pc, frames, tensors, liveTensors, loc, frame, raised, spO2Fault,
             response, served, clock, rng>>

vars == <<fnVars, reqVars>>

\* no request is being handled
NoRequest ==
  /\ pc = "idle"
  /\ frames = <<>>
  /\ tensors = <<>>
  /\ liveTensors = 0
  /\ loc = <<>>
  /\ frame = <<>>
  /\ raised = "none"
  /\ spO2Fault = "none"
  /\ response = <<>>
  /\ served = <<>>
  /\ clock = 0
  /\ rng = 1

(***************************************************************************)
(* Rationals: pairs <<n, d>> in lowest terms with d > 0.                   *)
(***************************************************************************)
AbsInt(x) == IF x < 0 THEN -x ELSE x

SgnInt(x) == IF x < 0 THEN -1 ELSE IF x > 0 THEN 1 ELSE 0

RECURSIVE GCD(_, _)
GCD(x, y) == IF y = 0 THEN x ELSE GCD(y, x % y)

QNorm(n, d, g) ==
  IF d < 0 THEN <<(0 - n) \div g, (0 - d) \div g>> ELSE <<n \div g, d \div g>>

Q(n, d) == QNorm(n, d, GCD(AbsInt(n), AbsInt(d)))

QAddG(x, y, g) ==
  Q(x[1] * (y[2] \div g) + y[1] * (x[2] \div g), (x[2] \div g) * y[2])

QAdd(x, y) == QAddG(x, y, GCD(x[2], y[2]))

QNeg(x) == <<0 - x[1], x[2]>>

QMulG(x, y, g1, g2) ==
  <<(x[1] \div g1) * (y[1] \div g2), (x[2] \div g2) * (y[2] \div g1)>>

QMul(x, y) == QMulG(x, y, GCD(AbsInt(x[1]), y[2]), GCD(AbsInt(y[1]), x[2]))

QInv(x) == IF x[1] < 0 THEN <<0 - x[2], 0 - x[1]>> ELSE <<x[2], x[1]>>

QSgn(x) == SgnInt(x[1])

\* sign of x - y
QCmp(x, y) == QSgn(QAdd(x, QNeg(y)))

\* m * r = s*s*r' with r' squarefree, by trial division from f: <<s, r'>>
RECURSIVE SqDecomp(_, _, _, _)
SqDecomp(m, f, s, r) ==
  IF f * f > m THEN <<s, r * m>>
  ELSE IF m % (f * f) = 0 THEN SqDecomp(m \div (f * f), f, s * f, r)
  ELSE IF m % f = 0 THEN SqDecomp(m \div f, f + 1, s, r * f)
  ELSE SqDecomp(m, f + 1, s, r)

\* floor of the square root of a natural number, by Newton's iteration:
\* x is the current estimate and y the next one
RECURSIVE ISqrtStep(_, _, _)
ISqrtStep(m, x, y) ==
  IF y >= x THEN x ELSE ISqrtStep(m, y, (y + m \div y) \div 2)

ISqrt(m) == IF m = 0 THEN 0 ELSE ISqrtStep(m, m, (m + 1) \div 2)

(***************************************************************************)
(* JavaScript values.  k is the kind; a finite number is q*sqrt(r) with q  *)
(* a rational and r a squarefree natural (r = 1 for a rational number);    *)
(* neg is the sign bit of a zero or of an infinity.  A sum of two numbers  *)
(* with different radicals has no representation and is not evaluated.     *)
(***************************************************************************)
Num(k, q, r, neg) == [k |-> k, q |-> q, r |-> r, neg |-> neg]

NaN == Num("nan", <<0, 1>>, 1, FALSE)

Inf(neg) == Num("inf", <<0, 1>>, 1, neg)

Zero(neg) == Num("fin", <<0, 1>>, 1, neg)

Null == Num("null", <<0, 1>>, 1, FALSE)

Undefined == Num("undef", <<0, 1>>, 1, FALSE)

\* a value outside the modelled numbers
Unrepresentable == CHOOSE x \in {} : TRUE

\* the finite number q*sqrt(r)
Fin(q, r) == IF q[1] = 0 THEN Zero(FALSE) ELSE Num("fin", q, r, FALSE)

Rat(n, d) == Fin(Q(n, d), 1)

Int2Num(n) == Num("fin", <<n, 1>>, 1, FALSE)

\* ToNumber: null is +0, undefined is NaN
ToNumber(x) ==
  IF x.k = "null" THEN Zero(FALSE)
  ELSE IF x.k = "undef" THEN NaN
  ELSE x

IsZero(x) == x.k = "fin" /\ x.q[1] = 0

\* TRUE when the sign bit of the number is set
IsNeg(x) == IF x.k = "fin" /\ x.q[1] /= 0 THEN x.q[1] < 0 ELSE x.neg

NegOf(x) ==
  IF x.k = "nan" THEN NaN
  ELSE IF x.k = "inf" THEN Inf(~x.neg)
  ELSE IF IsZero(x) THEN Zero(~x.neg)
  ELSE Num("fin", QNeg(x.q), x.r, FALSE)

\* -x
NegNum(v) == NegOf(ToNumber(v))

AddNum(x, y) ==
  IF x.k = "nan" \/ y.k = "nan" THEN NaN
  ELSE IF x.k = "inf" THEN (IF y.k = "inf" /\ x.neg /= y.neg THEN NaN ELSE x)
  ELSE IF y.k = "inf" THEN y
  ELSE IF IsZero(x) THEN (IF IsZero(y) THEN Zero(x.neg /\ y.neg) ELSE y)
  ELSE IF IsZero(y) THEN x
  ELSE IF x.r = y.r THEN Fin(QAdd(x.q, y.q), x.r)
  ELSE Unrepresentable

\* x + y
Add(v, w) == AddNum(ToNumber(v), ToNumber(w))

\* x - y
Sub(v, w) == Add(v, NegNum(w))

\* product of two nonzero finite numbers; g is the gcd of their radicands
FinMul(x, y, g) ==
  Num("fin", QMul(QMul(x.q, y.q), <<g, 1>>), (x.r \div g) * (y.r \div g), FALSE)

MulNum(x, y) ==
  IF x.k = "nan" \/ y.k = "nan" THEN NaN
  ELSE IF x.k = "inf" \/ y.k = "inf"
       THEN (IF IsZero(x) \/ IsZero(y) THEN NaN ELSE Inf(IsNeg(x) /= IsNeg(y)))
  ELSE IF IsZero(x) \/ IsZero(y) THEN Zero(IsNeg(x) /= IsNeg(y))
  ELSE FinMul(x, y, GCD(x.r, y.r))

\* x * y
Mul(v, w) == MulNum(ToNumber(v), ToNumber(w))

\* 1 / y for a nonzero finite y: 1/(q*sqrt(r)) = sqrt(r)/(q*r)
FinInv(y) == Num("fin", QMul(QInv(y.q), <<1, y.r>>), y.r, FALSE)

DivNum(x, y) ==
  IF x.k = "nan" \/ y.k = "nan" THEN NaN
  ELSE IF x.k = "inf"
       THEN (IF y.k = "inf" THEN NaN ELSE Inf(IsNeg(x) /= IsNeg(y)))
  ELSE IF y.k = "inf" THEN Zero(IsNeg(x) /= IsNeg(y))
  ELSE IF IsZero(y)
       THEN (IF IsZero(x) THEN NaN ELSE Inf(IsNeg(x) /= IsNeg(y)))
  ELSE IF IsZero(x) THEN Zero(IsNeg(x) /= IsNeg(y))
  ELSE FinMul(x, FinInv(y), GCD(x.r, y.r))

\* x / y
Div(v, w) == DivNum(ToNumber(v), ToNumber(w))

\* sqrt(n/d) for n = s*s*r and d = t*t*u, given sn = <<s, r>> and sd = <<t, u>>:
\* s*sqrt(r) / (t*sqrt(u)) = (s/(t*u)) * sqrt(r*u)
SqrtRat(sn, sd) == Num("fin", Q(sn[1], sd[1] * sd[2]), sn[2] * sd[2], FALSE)

SqrtNum(x) ==
  IF x.k = "nan" THEN NaN
  ELSE IF x.k = "inf" THEN (IF x.neg THEN NaN ELSE x)
  ELSE IF IsZero(x) THEN x
  ELSE IF x.q[1] < 0 THEN NaN
  ELSE IF x.r /= 1 THEN Unrepresentable
  ELSE SqrtRat(SqDecomp(x.q[1], 2, 1, 1), SqDecomp(x.q[2], 2, 1, 1))

\* Math.sqrt
Sqrt(v) == SqrtNum(ToNumber(v))

\* Math.pow(x, 2)
Sq(v) == Mul(v, v)

\* the square of q*sqrt(r), a rational
QSquare(x) == QMul(QMul(x.q, x.q), <<x.r, 1>>)

\* sign of x - y for finite x and y
FinCmp(x, y) ==
  IF x.r = y.r THEN QCmp(x.q, y.q)
  ELSE IF QSgn(x.q) /= QSgn(y.q) THEN (IF QSgn(x.q) < QSgn(y.q) THEN -1 ELSE 1)
  ELSE QSgn(x.q) * QCmp(QSquare(x), QSquare(y))

LtNum(x, y) ==
  IF x.k = "nan" \/ y.k = "nan" THEN FALSE
  ELSE IF x.k = "inf" THEN x.neg /\ ~(y.k = "inf" /\ y.neg)
  ELSE IF y.k = "inf" THEN ~y.neg
  ELSE FinCmp(x, y) < 0

\* x < y  (false when either side is NaN)
Lt(v, w) == LtNum(ToNumber(v), ToNumber(w))

\* x > y
Gt(v, w) == Lt(w, v)

EqNum(x, y) ==
  IF x.k = "nan" \/ y.k = "nan" THEN FALSE
  ELSE x.k = y.k /\ x.q = y.q /\ x.r = y.r /\ (x.k = "inf" => x.neg = y.neg)

\* x == y on numbers (false when either side is NaN, -0 equals +0)
NumEq(v, w) == EqNum(ToNumber(v), ToNumber(w))

\* x <= y
Le(v, w) == Lt(v, w) \/ NumEq(v, w)

\* x >= y
Ge(v, w) == Le(w, v)

\* floor(2*n*sqrt(r)) for an integer n /= 0 and a squarefree r > 1
FloorRad(n, r) ==
  IF n > 0 THEN ISqrt(4 * n * n * r)
  ELSE 0 - (ISqrt(4 * n * n * r) + 1)

\* floor(x + 1/2) of a finite number, as an integer
FinRound(x) ==
  IF x.r = 1 THEN (2 * x.q[1] + x.q[2]) \div (2 * x.q[2])
  ELSE (FloorRad(x.q[1], x.r) + x.q[2]) \div (2 * x.q[2])

RoundInt(x, f) == IF f = 0 THEN Zero(x.q[1] < 0) ELSE Int2Num(f)

RoundNum(x) ==
  IF x.k /= "fin" \/ IsZero(x) THEN x ELSE RoundInt(x, FinRound(x))

\* Math.round: floor(x + 0.5), keeping -0 for results in [-0.5, 0]
Round(v) == RoundNum(ToNumber(v))

AbsOf(x) == IF IsNeg(x) THEN NegOf(x) ELSE x

\* Math.abs
AbsNum(v) == AbsOf(ToNumber(v))

MaxOf(x, y) ==
  IF x.k = "nan" \/ y.k = "nan" THEN NaN
  ELSE IF LtNum(x, y) THEN y
  ELSE IF LtNum(y, x) THEN x
  ELSE IF IsNeg(x) THEN y ELSE x

MinOf(x, y) ==
  IF x.k = "nan" \/ y.k = "nan" THEN NaN
  ELSE IF LtNum(x, y) THEN x
  ELSE IF LtNum(y, x) THEN y
  ELSE IF IsNeg(x) THEN x ELSE y

\* Math.max and Math.min (NaN if either argument is NaN)
MaxNum(v, w) == MaxOf(ToNumber(v), ToNumber(w))

MinNum(v, w) == MinOf(ToNumber(v), ToNumber(w))

\* truthiness of a value used as the left operand of ||
Truthy(x) == ~(x.k \in {"nan", "null", "undef"} \/ IsZero(x))

\* x || y
OrElse(x, y) == IF Truthy(x) THEN x ELSE y

IsFinite(x) == x.k = "fin"

(***************************************************************************)
(* Array helpers and the Math.mean / Math.std patches.                     *)
(***************************************************************************)
\* arr.reduce((a, b) => a + b, 0)
RECURSIVE SumFrom(_, _, _)
SumFrom(arr, i, acc) ==
  IF i > Len(arr) THEN acc ELSE SumFrom(arr, i + 1, Add(acc, arr[i]))

SumSeq(arr) == SumFrom(arr, 1, Zero(FALSE))

\* arr.length || 1
LenOr1(arr) == IF Len(arr) = 0 THEN Int2Num(1) ELSE Int2Num(Len(arr))

MathMean(arr) == Div(SumSeq(arr), LenOr1(arr))

\* arr.reduce((a, b) => a + Math.pow(b - mean, 2), 0) / (arr.length || 1)
Variance(arr, mean) ==
  Div(SumSeq([i \in 1..Len(arr) |-> Sq(Sub(arr[i], mean))]), LenOr1(arr))

MathStd(arr) == Sqrt(Variance(arr, MathMean(arr)))

\* all sequences over S of length 0..n
SeqsUpTo(S, n) == UNION {[1..m -> S] : m \in 0..n}

(***************************************************************************)
(* spO2Processor.js: calibration curve                                     *)
(***************************************************************************)
CalibA == 110

CalibB == 25

SpO2Min == 70

SpO2Max == 100

\* the calibration line without the clamp to [SpO2Min, SpO2Max]
calculateCalibatedSpO2Unclamped(R) ==
  Sub(Int2Num(CalibA), Mul(Int2Num(CalibB), R))

calculateCalibatedSpO2(R) ==
  LET spO2 == Sub(Int2Num(CalibA), Mul(Int2Num(CalibB), R))
  IN  MinNum(Int2Num(SpO2Max), MaxNum(Int2Num(SpO2Min), spO2))

(***************************************************************************)
(* vitalSignsProcessor.js: RMSSD and the SNR confidence                    *)
(***************************************************************************)
calculateRMSSD(intervals) ==
  IF Len(intervals) = 0 THEN Zero(FALSE)
  ELSE LET differences ==
             [i \in 1..(Len(intervals) - 1) |->
                Sq(Sub(intervals[i + 1], intervals[i]))]
       IN  Sqrt(OrElse(Div(SumSeq(differences), Int2Num(Len(differences))),
                       Int2Num(1)))

\* the bucketing with the boundary snr = 2 counted as high
calculateConfidenceInclusive(data, metric) ==
  LET snr == Div(MathMean(data), MathStd(data))
  IN  IF Ge(snr, Int2Num(2)) THEN "high"
      ELSE IF Gt(snr, Int2Num(1)) THEN "moderate"
      ELSE "low"

calculateConfidence(data, metric) ==
  LET mean == MathMean(data)
      std  == MathStd(data)
      snr  == Div(mean, std)
  IN  IF Gt(snr, Int2Num(2)) THEN "high"
      ELSE IF Gt(snr, Int2Num(1)) THEN "moderate"
      ELSE "low"

(***************************************************************************)
(* spO2Processor.js: bucketing of the quality score                        *)
(***************************************************************************)
determineConfidenceLevel(score) ==
  IF Gt(score, Rat(8, 10)) THEN "high"
  ELSE IF Gt(score, Rat(6, 10)) THEN "moderate"
  ELSE "low"

(***************************************************************************)
(* vitalSignsProcessor.js.  A frame tensor is a sequence of pixels, each   *)
(* pixel a triple <<r, g, b>>; array indices are kept 0-based as in the    *)
(* source (JS index i is position i + 1 of the sequence).                  *)
(***************************************************************************)
FPS == 5

\* tf.mean(channel) of channel c of a tensor
ChannelMean(tensor, c) == MathMean([p \in 1..Len(tensor) |-> tensor[p][c]])

extractRPPGSignal(frameTensors) ==
  [i \in 1..Len(frameTensors) |->
     <<ChannelMean(frameTensors[i], 1), ChannelMean(frameTensors[i], 2),
       ChannelMean(frameTensors[i], 3)>>]

\* rppgSignal.map((rgb) => rgb[c - 1])
Channel(rppgSignal, c) == [i \in 1..Len(rppgSignal) |-> rppgSignal[i][c]]

\* an array of integers as an array of numbers
NumSeq(ints) == [i \in 1..Len(ints) |-> Int2Num(ints[i])]

RECURSIVE PeaksFrom(_, _, _)
PeaksFrom(signal, i, peaks) ==
  IF i >= Len(signal) - 1 THEN peaks
  ELSE PeaksFrom(signal, i + 1,
         IF Gt(signal[i + 1], signal[i]) /\ Gt(signal[i + 1], signal[i + 2])
         THEN Append(peaks, i) ELSE peaks)

\* a detector that also reports the samples of a plateau
RECURSIVE PlateauPeaksFrom(_, _, _)
PlateauPeaksFrom(signal, i, peaks) ==
  IF i >= Len(signal) - 1 THEN peaks
  ELSE PlateauPeaksFrom(signal, i + 1,
         IF Ge(signal[i + 1], signal[i]) /\ Ge(signal[i + 1], signal[i + 2])
         THEN Append(peaks, i) ELSE peaks)

detectPeaksPlateau(signal) == PlateauPeaksFrom(signal, 1, <<>>)

detectPeaks(signal) == PeaksFrom(signal, 1, <<>>)

\* x > threshold for threshold = mean + std, decided as x - mean > std
AboveThreshold(x, mean, std) == Gt(Sub(x, mean), std)

RECURSIVE CyclesFrom(_, _, _, _, _)
CyclesFrom(movements, mean, std, i, cycles) ==
  IF i >= Len(movements) - 1 THEN cycles
  ELSE CyclesFrom(movements, mean, std, i + 1,
         IF /\ AboveThreshold(movements[i + 1], mean, std)
            /\ Gt(movements[i + 1], movements[i])
            /\ Gt(movements[i + 1], movements[i + 2])
         THEN cycles + 1 ELSE cycles)

countBreathingCycles(movements) ==
  CyclesFrom(movements, MathMean(movements), MathStd(movements), 1, 0)

\* a quality record that carries a variability field
calculateSignalQualityWithVariability(rppgSignal) ==
  [signalToNoise |-> Div(MathMean(Channel(rppgSignal, 2)),
                         MathStd(Channel(rppgSignal, 2))),
   variability |-> Zero(FALSE),
   quality |-> "poor",
   confidence |-> "moderate"]

calculateSignalQuality(rppgSignal) ==
  LET greenChannel == Channel(rppgSignal, 2)
      mean == MathMean(greenChannel)
      std  == MathStd(greenChannel)
  IN  [signalToNoise |-> Div(mean, std),
       quality |-> IF Gt(Div(mean, std), Rat(3, 2)) THEN "good" ELSE "poor",
       confidence |-> IF Gt(Div(mean, std), Int2Num(2)) THEN "high" ELSE "moderate"]

\* a heart rate computed for a recording at 10 frames per second
calculateHeartRateFast(rppgSignal) ==
  [value |-> Round(Div(Mul(Int2Num(Len(detectPeaks(Channel(rppgSignal, 2)))),
                           Int2Num(60)),
                       Div(Int2Num(Len(rppgSignal)), Int2Num(10)))),
   unit |-> "bpm",
   confidence |-> "low",
   methodology |-> "rPPG color changes in face"]

calculateHeartRate(rppgSignal) ==
  LET greenChannel == Channel(rppgSignal, 2)
      peaks == detectPeaks(greenChannel)
      duration == Div(Int2Num(Len(rppgSignal)), Int2Num(FPS))
      heartRate == Div(Mul(Int2Num(Len(peaks)), Int2Num(60)), duration)
  IN  [value |-> Round(heartRate),
       unit |-> "bpm",
       confidence |-> calculateConfidence(NumSeq(peaks), "hr"),
       methodology |-> "rPPG color changes in face"]

calculateHRV(rppgSignal) ==
  LET greenChannel == Channel(rppgSignal, 2)
      peaks == detectPeaks(greenChannel)
      rrIntervals ==
        [i \in 1..(IF Len(peaks) = 0 THEN 0 ELSE Len(peaks) - 1) |->
           Mul(Div(Int2Num(peaks[i + 1] - peaks[i]), Int2Num(FPS)), Int2Num(1000))]
      rmssd == calculateRMSSD(rrIntervals)
  IN  [value |-> Round(rmssd),
       unit |-> "ms",
       confidence |-> calculateConfidence(rrIntervals, "hrv"),
       methodology |-> "rPPG signal interval analysis"]

\* tf.mean(tf.abs(tf.sub(b, a))) over all elements of two tensors of one shape
Movement(a, b) ==
  MathMean([j \in 1..(3 * Len(a)) |->
              AbsNum(Sub(b[((j - 1) \div 3) + 1][((j - 1) % 3) + 1],
                         a[((j - 1) \div 3) + 1][((j - 1) % 3) + 1]))])

\* the movements array built by the loop over consecutive frames
Movements(frameTensors) ==
  [i \in 1..(IF Len(frameTensors) = 0 THEN 0 ELSE Len(frameTensors) - 1) |->
     Movement(frameTensors[i], frameTensors[i + 1])]

calculateRespiratoryRate(frameTensors) ==
  LET movements == Movements(frameTensors)
      respiratoryCycles == countBreathingCycles(movements)
      duration == Div(Int2Num(Len(frameTensors)), Int2Num(FPS))
      rate == Div(Mul(Int2Num(respiratoryCycles), Int2Num(60)), duration)
  IN  [value |-> Round(rate),
       unit |-> "breaths/min",
       confidence |-> calculateConfidence(movements, "respiratory"),
       methodology |-> "Subtle head/chest movements"]

\* an estimate that is not tagged as low confidence
estimateBloodPressureModerate(rppgSignal) ==
  [systolic |-> Int2Num(110),
   diastolic |-> Int2Num(70),
   unit |-> "mmHg",
   confidence |-> "moderate",
   methodology |-> "Experimental ML model with rPPG"]

estimateBloodPressure(rppgSignal) ==
  LET greenChannel == Channel(rppgSignal, 2)
      peaks == detectPeaks(greenChannel)
      peakAmplitudes == [i \in 1..Len(peaks) |-> greenChannel[peaks[i] + 1]]
      systolic == Add(Int2Num(110), Round(Mul(MathStd(peakAmplitudes), Int2Num(30))))
      diastolic == Add(Int2Num(70), Round(Mul(MathMean(peakAmplitudes), Int2Num(20))))
  IN  [systolic |-> systolic,
       diastolic |-> diastolic,
       unit |-> "mmHg",
       confidence |-> "low",
       methodology |-> "Experimental ML model with rPPG"]

\* a classifier without the test for calm
analyzeMoodTwoTests(frameTensors) ==
  [primary |->
     IF Gt(MathStd(Movements(frameTensors)), Rat(2, 10))
     THEN (IF Gt(MathMean(Movements(frameTensors)), Rat(15, 100))
           THEN "stressed" ELSE "active")
     ELSE "neutral",
   confidence |-> "moderate",
   methodology |-> "Movement pattern analysis"]

analyzeMood(frameTensors) ==
  LET movements == Movements(frameTensors)
      avgMovement == MathMean(movements)
      movementVariability == MathStd(movements)
      primaryMood ==
        IF Gt(movementVariability, Rat(2, 10))
        THEN (IF Gt(avgMovement, Rat(15, 100)) THEN "stressed" ELSE "active")
        ELSE IF Lt(avgMovement, Rat(5, 100)) THEN "calm"
        ELSE "neutral"
  IN  [primary |-> primaryMood,
       confidence |-> "moderate",
       methodology |-> "Movement pattern analysis"]

getStressLevel(score) ==
  IF Ge(score, Int2Num(80)) THEN "very high"
  ELSE IF Ge(score, Int2Num(60)) THEN "high"
  ELSE IF Ge(score, Int2Num(40)) THEN "moderate"
  ELSE IF Ge(score, Int2Num(20)) THEN "low"
  ELSE "very low"

\* a score that weights the respiratory band by 0.4
calculateStressLevelHeavy(hrvValue, respiratoryRate) ==
  LET hrvScore == IF Lt(hrvValue, Int2Num(20)) THEN 100
                  ELSE IF Lt(hrvValue, Int2Num(30)) THEN 80
                  ELSE IF Lt(hrvValue, Int2Num(50)) THEN 60
                  ELSE IF Lt(hrvValue, Int2Num(100)) THEN 40
                  ELSE 20
      respiratoryScore == IF Gt(respiratoryRate, Int2Num(20)) THEN 100
                          ELSE IF Gt(respiratoryRate, Int2Num(18)) THEN 80
                          ELSE IF Gt(respiratoryRate, Int2Num(15)) THEN 60
                          ELSE IF Gt(respiratoryRate, Int2Num(12)) THEN 40
                          ELSE 20
      finalScore == Round(Add(Mul(Int2Num(hrvScore), Rat(7, 10)),
                              Mul(Int2Num(respiratoryScore), Rat(4, 10))))
  IN  [value |-> finalScore,
       level |-> getStressLevel(finalScore),
       confidence |-> "moderate",
       methodology |-> "Combined HRV and respiratory analysis"]

calculateStressLevel(hrvValue, respiratoryRate) ==
  LET hrvScore ==
        IF Lt(hrvValue, Int2Num(20)) THEN 100
        ELSE IF Lt(hrvValue, Int2Num(30)) THEN 80
        ELSE IF Lt(hrvValue, Int2Num(50)) THEN 60
        ELSE IF Lt(hrvValue, Int2Num(100)) THEN 40
        ELSE 20
      respiratoryScore ==
        IF Gt(respiratoryRate, Int2Num(20)) THEN 100
        ELSE IF Gt(respiratoryRate, Int2Num(18)) THEN 80
        ELSE IF Gt(respiratoryRate, Int2Num(15)) THEN 60
        ELSE IF Gt(respiratoryRate, Int2Num(12)) THEN 40
        ELSE 20
      finalScore == Round(Add(Mul(Int2Num(hrvScore), Rat(7, 10)),
                              Mul(Int2Num(respiratoryScore), Rat(3, 10))))
  IN  [value |-> finalScore,
       level |-> getStressLevel(finalScore),
       confidence |->
         IF \/ Lt(hrvValue, Int2Num(10))
            \/ Lt(respiratoryRate, Int2Num(8))
            \/ Gt(respiratoryRate, Int2Num(25))
         THEN "low" ELSE "moderate",
       methodology |-> "Combined HRV and respiratory analysis"]

(***************************************************************************)
(* spO2Processor.js                                                        *)
(***************************************************************************)
\* signal.map(x => (x - mean) / std)
Normalized(signal, mean, std) ==
  [i \in 1..Len(signal) |-> Div(Sub(signal[i], mean), std)]

normalizeSignal(signal) == Normalized(signal, MathMean(signal), MathStd(signal))

\* rppgSignal.map(x => x[0] * 0.6 + x[2] * 0.4)
InfraredSignal(rppgSignal) ==
  [i \in 1..Len(rppgSignal) |->
     Add(Mul(rppgSignal[i][1], Rat(6, 10)), Mul(rppgSignal[i][3], Rat(4, 10)))]

preprocessSignals(rppgSignal) ==
  [redSignal |-> normalizeSignal(Channel(rppgSignal, 1)),
   infraredSignal |-> normalizeSignal(InfraredSignal(rppgSignal))]

\* the window sum of movingAverage: signal[j] for j from lo to i (0-based)
RECURSIVE WindowSum(_, _, _, _)
WindowSum(signal, j, i, sum) ==
  IF j > i THEN sum ELSE WindowSum(signal, j + 1, i, Add(sum, signal[j + 1]))

movingAverage(signal, windowSize) ==
  [k \in 1..Len(signal) |->
     LET i  == k - 1
         lo == IF i - windowSize + 1 > 0 THEN i - windowSize + 1 ELSE 0
     IN  Div(WindowSum(signal, lo, i, Zero(FALSE)), Int2Num(i - lo + 1))]

createButterworthCoefficients(order, lowW, highW) ==
  [numerator |-> <<1>>, denominator |-> <<1>>]

filterSignal(signal, numerator, denominator) == movingAverage(signal, 5)

butterworth(signal, options) ==
  LET nyquist == Div(options.samplingRate, Int2Num(2))
      lowW  == Div(options.lowFreq, nyquist)
      highW == Div(options.highFreq, nyquist)
      coef  == createButterworthCoefficients(options.order, lowW, highW)
  IN  filterSignal(signal, coef.numerator, coef.denominator)

RECURSIVE PeaksTroughsFrom(_, _, _)
PeaksTroughsFrom(signal, i, acc) ==
  IF i >= Len(signal) - 1 THEN acc
  ELSE PeaksTroughsFrom(signal, i + 1,
         [peaks |->
            IF Gt(signal[i + 1], signal[i]) /\ Gt(signal[i + 1], signal[i + 2])
            THEN Append(acc.peaks, i) ELSE acc.peaks,
          troughs |->
            IF Lt(signal[i + 1], signal[i]) /\ Lt(signal[i + 1], signal[i + 2])
            THEN Append(acc.troughs, i) ELSE acc.troughs])

findPeaksTroughs(signal) ==
  PeaksTroughsFrom(signal, 1, [peaks |-> <<>>, troughs |-> <<>>])

\* indices.map(i => ac[i])
ValuesAt(ac, indices) == [i \in 1..Len(indices) |-> ac[indices[i] + 1]]

ACDCRecord(ac, pt, acAmplitude, dcValue) ==
  [ac |-> acAmplitude,
   dc |-> dcValue,
   perfusion |-> Mul(Div(acAmplitude, dcValue), Int2Num(100)),
   peaks |-> pt.peaks,
   troughs |-> pt.troughs,
   signal |-> ac]

\* the components given the AC signal, its peaks and troughs, and the DC signal
ACDCFromPeaks(ac, pt, dc) ==
  ACDCRecord(ac, pt,
             Sub(MathMean(ValuesAt(ac, pt.peaks)), MathMean(ValuesAt(ac, pt.troughs))),
             MathMean(dc))

ACDCFromAC(ac, dc) == ACDCFromPeaks(ac, findPeaksTroughs(ac), dc)

\* the components given the DC signal: ac = signal.map((v, i) => v - dc[i])
ACDCFromDC(signal, dc) ==
  ACDCFromAC([i \in 1..Len(signal) |-> Sub(signal[i], dc[i])], dc)

calculateACDCComponents(signal) == ACDCFromDC(signal, movingAverage(signal, 30))

calculateRatioAmplitude(redComponents, irComponents) ==
  LET redRatio == Div(redComponents.ac, redComponents.dc)
      irRatio  == Div(irComponents.ac, irComponents.dc)
  IN  Div(redRatio, irRatio)

calculateAreaUnderCurve(signal) ==
  SumSeq([i \in 1..Len(signal) |-> AbsNum(signal[i])])

calculateRatioArea(redSignal, irSignal) ==
  Div(calculateAreaUnderCurve(redSignal), calculateAreaUnderCurve(irSignal))

calculatePerfusionIndex(components) ==
  Mul(Div(components.ac, components.dc), Int2Num(100))

calculateSNR(signal) == Div(MathMean(signal), MathStd(signal))

calculateSignalStability(redSignal, irSignal) ==
  LET redStability == Div(Int2Num(1), MathStd(redSignal))
      irStability  == Div(Int2Num(1), MathStd(irSignal))
  IN  Div(Add(redStability, irStability), Int2Num(2))

isPhysiologicallyValid(R) ==
  IF Ge(R, Rat(1, 2)) /\ Le(R, Int2Num(2)) THEN Int2Num(1) ELSE Zero(FALSE)

\* Object.values(metrics).reduce((a, b) => a + b, 0) / 3
calculateReliability(metrics) ==
  Div(SumSeq(<<metrics.snr, metrics.stability, metrics.physiological>>), Int2Num(3))

(***************************************************************************)
(* binary64 arithmetic for the confidence weights.  A value is a natural   *)
(* number of units of 2^-54, written in three limbs of base 10^8, least    *)
(* significant first.  Every value that occurs lies in [2^-2, 2^3), where  *)
(* the spacing of binary64 is 1, 2, 4, 8 or 16 units (0 and 0.2 are whole   *)
(* numbers of units as well).                                              *)
(***************************************************************************)
Limbs(hi, mid, lo) == <<lo, mid, hi>>

BigZero == Limbs(0, 0, 0)

BigAdd(x, y) ==
  LET s1 == x[1] + y[1]
      s2 == x[2] + y[2] + (s1 \div 100000000)
      s3 == x[3] + y[3] + (s2 \div 100000000)
  IN  <<s1 % 100000000, s2 % 100000000, s3>>

\* sign of x - y
BigCmp(x, y) ==
  IF x[3] /= y[3] THEN SgnInt(x[3] - y[3])
  ELSE IF x[2] /= y[2] THEN SgnInt(x[2] - y[2])
  ELSE SgnInt(x[1] - y[1])

\* <<quotient, remainder>> of x by a small positive integer m
BigDivSmall(x, m) ==
  LET q3 == x[3] \div m
      r3 == x[3] % m
      q2 == (r3 * 100000000 + x[2]) \div m
      r2 == (r3 * 100000000 + x[2]) % m
      q1 == (r2 * 100000000 + x[1]) \div m
      r1 == (r2 * 100000000 + x[1]) % m
  IN  <<(<<q1, q2, q3>>), r1>>

\* 2^53 .. 2^56 units, i.e. the numbers 0.5, 1, 2 and 4
Pow2Units(e) ==
  CASE e = 53 -> Limbs(0, 90071992, 54740992)
    [] e = 54 -> Limbs(1, 80143985, 9481984)
    [] e = 55 -> Limbs(3, 60287970, 18963968)
    [] e = 56 -> Limbs(7, 20575940, 37927936)

\* spacing (in units) of the binary64 numbers around the exact value n
Spacing(n) ==
  IF BigCmp(n, Pow2Units(53)) < 0 THEN 1
  ELSE IF BigCmp(n, Pow2Units(54)) < 0 THEN 2
  ELSE IF BigCmp(n, Pow2Units(55)) < 0 THEN 4
  ELSE IF BigCmp(n, Pow2Units(56)) < 0 THEN 8
  ELSE 16

\* round the exact value n to the nearest binary64, ties to even
RoundToDouble(n) ==
  LET q   == Spacing(n)
      rem == n[1] % q
      low == <<n[1] - rem, n[2], n[3]>>
      up  == 2 * rem > q \/ (2 * rem = q /\ low[1] % (2 * q) /= 0)
  IN  IF rem = 0 THEN n
      ELSE IF up THEN BigAdd(low, Limbs(0, 0, q))
      ELSE low

\* a + b on binary64
DblAdd(x, y) == RoundToDouble(BigAdd(x, y))

\* x / m on binary64, m a small positive integer, quotient in [2^-2, 1]
DblDivInt(x, m) ==
  LET qr  == BigDivSmall(x, m)
      qt  == qr[1]
      rem == qr[2]
      inc == BigAdd(qt, Limbs(0, 0, 1))
  IN  IF BigCmp(qt, Pow2Units(53)) < 0
      THEN (IF 2 * rem > m \/ (2 * rem = m /\ qt[1] % 2 = 1) THEN inc ELSE qt)
      ELSE IF qt[1] % 2 = 0 THEN qt
      ELSE IF rem > 0 THEN inc
      ELSE IF (qt[1] - 1) % 4 = 0 THEN <<qt[1] - 1, qt[2], qt[3]>>
      ELSE inc

\* the binary64 numbers 1, 0.6, 0.3, 0.5, 0.8, 0.4 and 0.2
Dbl1 == Limbs(1, 80143985, 9481984)

Dbl06 == Limbs(1, 8086391, 5689190)

Dbl03 == Limbs(0, 54043195, 52844595)

Dbl05 == Limbs(0, 90071992, 54740992)

Dbl08 == Limbs(1, 44115188, 7585588)

Dbl04 == Limbs(0, 72057594, 3792794)

Dbl02 == Limbs(0, 36028797, 1896397)

\* snr * 0.4 + stability * 0.4 + physiological * 0.2 on binary64, for
\* metrics that are 0 or 1
DblScore(metrics) ==
  LET Weighted(metric, weight) ==
        IF IsZero(ToNumber(metric)) THEN BigZero
        ELSE IF NumEq(metric, Int2Num(1)) THEN weight
        ELSE Unrepresentable
  IN  DblAdd(DblAdd(Weighted(metrics.snr, Dbl04),
                    Weighted(metrics.stability, Dbl04)),
             Weighted(metrics.physiological, Dbl02))

\* determineConfidenceLevel(score) for the score of assessSignalQuality: a
\* score that is exactly 0.6 or 0.8 in real arithmetic is decided by the
\* binary64 sum, every other score by its exact value
QualityConfidence(metrics, score) ==
  IF NumEq(score, Rat(6, 10)) \/ NumEq(score, Rat(8, 10))
  THEN (IF BigCmp(DblScore(metrics), Dbl08) > 0 THEN "high"
        ELSE IF BigCmp(DblScore(metrics), Dbl06) > 0 THEN "moderate"
        ELSE "low")
  ELSE determineConfidenceLevel(score)

QualityRecord(metrics, score) ==
  [score |-> score,
   confidence |-> QualityConfidence(metrics, score),
   reliability |-> calculateReliability(metrics),
   metrics |-> metrics]

\* score = snr * 0.4 + stability * 0.4 + physiological * 0.2
QualityOf(metrics) ==
  QualityRecord(metrics,
    Add(Add(Mul(metrics.snr, Rat(4, 10)), Mul(metrics.stability, Rat(4, 10))),
        Mul(metrics.physiological, Rat(2, 10))))

assessSignalQuality(redSignal, irSignal, R) ==
  QualityOf([snr |-> Add(Mul(calculateSNR(redSignal), Rat(3, 10)),
                         Mul(calculateSNR(irSignal), Rat(7, 10))),
             stability |-> calculateSignalStability(redSignal, irSignal),
             physiological |-> isPhysiologicallyValid(R)])

\* x.toFixed(digits), kept as the number the decimal string denotes
RECURSIVE Pow10(_)
Pow10(n) == IF n = 0 THEN 1 ELSE 10 * Pow10(n - 1)

ToFixed(x, digits) ==
  IF x.k /= "fin" THEN x
  ELSE IF IsNeg(x) /\ ~IsZero(x)
  THEN NegNum(Div(Round(Mul(NegNum(x), Int2Num(Pow10(digits)))), Int2Num(Pow10(digits))))
  ELSE Div(Round(Mul(AbsNum(x), Int2Num(Pow10(digits)))), Int2Num(Pow10(digits)))

\* the options of both butterworth calls
FilterOptions ==
  [lowFreq |-> Rat(1, 2), highFreq |-> Int2Num(4),
   samplingRate |-> Int2Num(30), order |-> 4]

\* the value returned by the try block of calculateSpO2
SpO2Result(redComponents, irComponents, R, spO2, quality, perfusionIndex) ==
  [value |-> Div(Round(Mul(spO2, Int2Num(10))), Int2Num(10)),
   unit |-> "%",
   confidence |-> quality.confidence,
   methodology |-> "Advanced rPPG with dual ratio calculation",
   perfusionIndex |-> perfusionIndex,
   quality |-> quality,
   details |->
     [rValue |-> ToFixed(R, 3),
      redPerfusion |-> ToFixed(redComponents.perfusion, 3),
      irPerfusion |-> ToFixed(irComponents.perfusion, 3),
      signalQuality |-> ToFixed(quality.score, 2),
      reliability |-> quality.reliability]]

\* a handler that passes the exception on to the caller
SpO2Rethrow(error) == [threw |-> TRUE, error |-> error]

\* catch (error) { ... }: calculateSpO2 completes normally with the failure
\* result
SpO2Catch(error) ==
  [threw |-> FALSE,
   value |-> [value |-> Null,
              unit |-> "%",
              confidence |-> "low",
              methodology |-> "Advanced rPPG processing failed",
              error |-> error]]

(***************************************************************************)
(* Harness for the calibration curve: R ranges over the multiples of       *)
(* 1/RDen between -RMax/RDen and RMax/RDen.                                *)
(***************************************************************************)
RDen == 4

RMax == 10

RInputs == {Rat(n, RDen) : n \in (0 - RMax)..RMax}

\* the state of the harness before its first call
NoCall ==
  /\ fn = ""
  /\ arg = <<>>
  /\ ret = <<>>
  /\ prev = <<>>
  /\ NoRequest

\* the harness takes the next pending call, of function f with result r
Apply(f, r) ==
  /\ fn' = f
  /\ arg' = Head(pending).x
  /\ ret' = r
  /\ pending' = Tail(pending)
  /\ prev' = IF fn = "" THEN <<>> ELSE <<[arg |-> arg, ret |-> ret]>>
  /\ UNCHANGED reqVars

Ready(f) == pending /= <<>> /\ Head(pending).f = f

InitCalib ==
  /\ pending \in [1..2 -> {[f |-> "calculateCalibatedSpO2", x |-> R] : R \in RInputs}]
  /\ NoCall

CallCalibrate ==
  /\ Ready("calculateCalibatedSpO2")
  /\ Apply("calculateCalibatedSpO2", calculateCalibatedSpO2(Head(pending).x))

NextCalib == CallCalibrate

SpecCalib == InitCalib /\ [][NextCalib]_vars

\* C1: for every finite R the calibrated SpO2 is clamp(110 - 25*R, 70, 100):
\* it lies in [70, 100], it does not increase when R increases, and
\* R = 1 gives 85, R = 0 gives 100, R = 2 gives 70.
C1_CalibrationClamp ==
  fn = "calculateCalibatedSpO2" =>
    LET lin == Sub(Int2Num(110), Mul(Int2Num(25), arg))
        clamp == IF Lt(lin, Int2Num(70)) THEN Int2Num(70)
                 ELSE IF Gt(lin, Int2Num(100)) THEN Int2Num(100)
                 ELSE lin
    IN  /\ ret = clamp
        /\ Ge(ret, Int2Num(70)) /\ Le(ret, Int2Num(100))
        /\ (prev /= <<>> /\ Le(prev[1].arg, arg) => Ge(prev[1].ret, ret))
        /\ (arg = Int2Num(1) => ret = Int2Num(85))
        /\ (IsZero(arg) => ret = Int2Num(100))
        /\ (arg = Int2Num(2) => ret = Int2Num(70))

\* a call with R = 2 (clamped from 60 to 70) right after a call with R = 1 (85)
C1_Witness ==
  /\ fn = "calculateCalibatedSpO2"
  /\ arg = Int2Num(2) /\ ret = Int2Num(70)
  /\ prev /= <<>>
  /\ prev[1].arg = Int2Num(1) /\ prev[1].ret = Int2Num(85)

(***************************************************************************)
(* Harness for calculateRMSSD: interval sequences as calculateHRV builds   *)
(* them (peak gaps of 2..MaxGap samples at 5 FPS, in ms).                  *)
(***************************************************************************)
MaxGap == 4

MaxIntervals == 4

IntervalVals == {Int2Num(200 * g) : g \in 2..MaxGap}

InitRMSSD ==
  /\ pending \in {<<[f |-> "calculateRMSSD", x |-> intervals]>> :
                    intervals \in SeqsUpTo(IntervalVals, MaxIntervals)}
  /\ NoCall

CallRMSSD ==
  /\ Ready("calculateRMSSD")
  /\ Apply("calculateRMSSD", calculateRMSSD(Head(pending).x))

NextRMSSD == CallRMSSD

SpecRMSSD == InitRMSSD /\ [][NextRMSSD]_vars

\* C8: calculateRMSSD is never negative, is 0 for the empty sequence, and
\* for at least two intervals is sqrt(mean of the squared successive
\* differences), so equal intervals give 0.
C8_RMSSDClaim ==
  fn = "calculateRMSSD" =>
    /\ Ge(ret, Zero(FALSE))
    /\ (Len(arg) = 0 => IsZero(ret))
    /\ (Len(arg) >= 2 =>
          ret = Sqrt(Div(SumSeq([i \in 1..(Len(arg) - 1) |->
                                   Sq(Sub(arg[i + 1], arg[i]))]),
                         Int2Num(Len(arg) - 1))))

(***************************************************************************)
(* Harness for the confidence bucketing.                                   *)
(***************************************************************************)
MaxDataVal == 3

MaxData == 4

ScoreDen == 10

ScoreMax == 12

DataVals == {Int2Num(v) : v \in 0..MaxDataVal}

ScoreInputs ==
  {Rat(n, ScoreDen) : n \in 0..ScoreMax} \cup {NaN, Inf(FALSE), Inf(TRUE)}

InitConf ==
  /\ \/ pending \in {<<[f |-> "calculateConfidence", x |-> data]>> :
                       data \in SeqsUpTo(DataVals, MaxData)}
     \/ pending \in {<<[f |-> "determineConfidenceLevel", x |-> score]>> :
                       score \in ScoreInputs}
  /\ NoCall

CallConfidence ==
  /\ Ready("calculateConfidence")
  /\ Apply("calculateConfidence", calculateConfidence(Head(pending).x, "hr"))

CallDetermine ==
  /\ Ready("determineConfidenceLevel")
  /\ Apply("determineConfidenceLevel", determineConfidenceLevel(Head(pending).x))

NextConf == CallConfidence \/ CallDetermine

SpecConf == InitConf /\ [][NextConf]_vars

\* C9: calculateConfidence maps snr = mean/std to exactly one bucket: high iff
\* snr > 2, moderate iff 1 < snr <= 2, low otherwise; snr = 2 is moderate,
\* snr = 1 is low, an undefined ratio (NaN) is low; determineConfidenceLevel
\* buckets the same way at 0.8 and 0.6.
C9_BucketsPartition ==
  /\ fn = "calculateConfidence" =>
       LET snr == Div(MathMean(arg), MathStd(arg))
       IN  /\ ret \in {"high", "moderate", "low"}
           /\ (ret = "high" <=> Gt(snr, Int2Num(2)))
           /\ (ret = "moderate" <=> Gt(snr, Int2Num(1)) /\ Le(snr, Int2Num(2)))
           /\ (ret = "low" <=> ~Gt(snr, Int2Num(1)))
           /\ (NumEq(snr, Int2Num(2)) => ret = "moderate")
           /\ (NumEq(snr, Int2Num(1)) => ret = "low")
           /\ (Len(arg) = 0 => snr.k = "nan" /\ ret = "low")
  /\ fn = "determineConfidenceLevel" =>
       /\ ret \in {"high", "moderate", "low"}
       /\ (ret = "high" <=> Gt(arg, Rat(8, 10)))
       /\ (ret = "moderate" <=> Gt(arg, Rat(6, 10)) /\ Le(arg, Rat(8, 10)))
       /\ (ret = "low" <=> ~Gt(arg, Rat(6, 10)))

\* the data [1, 3] has mean 2 and std 1: snr is exactly 2 and maps to moderate
C9_Witness ==
  /\ fn = "calculateConfidence"
  /\ arg = <<Int2Num(1), Int2Num(3)>>
  /\ NumEq(Div(MathMean(arg), MathStd(arg)), Int2Num(2))
  /\ ret = "moderate"

(***************************************************************************)
(* reportGenerator.js: overall confidence                                  *)
(***************************************************************************)
\* obj.field, undefined when the object has no such field
Get(obj, field) == IF field \in DOMAIN obj THEN obj[field] ELSE Undefined

assessConfidenceFactors(vitals) ==
  [signalStrength |->
     IF Gt(vitals.signalQuality.signalToNoise, Rat(3, 2)) THEN "good" ELSE "poor",
   measurementStability |->
     IF Lt(Get(vitals.signalQuality, "variability"), Rat(3, 10))
     THEN "stable" ELSE "unstable",
   dataCompleteness |->
     IF vitals.signalQuality.quality = "good" THEN "complete" ELSE "partial"]

\* confidenceScores[m.confidence] || 0.5
confidenceScores(c) ==
  CASE c = "high" -> Dbl1
    [] c = "moderate" -> Dbl06
    [] c = "low" -> Dbl03
    [] OTHER -> Dbl05

RECURSIVE DblSumFrom(_, _, _)
DblSumFrom(arr, i, acc) ==
  IF i > Len(arr) THEN acc ELSE DblSumFrom(arr, i + 1, DblAdd(acc, arr[i]))

calculateOverallConfidence(vitals) ==
  LET measurements == <<vitals.heartRate, vitals.hrv, vitals.respiratoryRate,
                        vitals.bloodPressure, vitals.stressLevel, vitals.spO2>>
      scores == [i \in 1..Len(measurements) |->
                   confidenceScores(measurements[i].confidence)]
      avgConfidence == DblDivInt(DblSumFrom(scores, 1, BigZero), Len(measurements))
  IN  [score |-> avgConfidence,
       level |-> IF BigCmp(avgConfidence, Dbl08) > 0 THEN "high"
                 ELSE IF BigCmp(avgConfidence, Dbl05) > 0 THEN "moderate"
                 ELSE "low",
       factors |-> assessConfidenceFactors(vitals)]

(***************************************************************************)
(* reportGenerator.js.  A text built by a template literal is the pair of  *)
(* its fixed text and the interpolated value; a plain text is a 1-tuple.   *)
(***************************************************************************)
Text(t) == <<t>>

Template(t, v) == <<t, v>>

\* x === null
IsNull(x) == x.k = "null"

getHeartRateStatus(hr) ==
  IF Lt(hr, Int2Num(60)) THEN "low"
  ELSE IF Gt(hr, Int2Num(100)) THEN "high"
  ELSE "normal"

getHRVStatus(hrv) ==
  IF Lt(hrv, Int2Num(20)) THEN "low"
  ELSE IF Gt(hrv, Int2Num(200)) THEN "high"
  ELSE "normal"

getRespiratoryStatus(rate) ==
  IF Lt(rate, Int2Num(12)) THEN "low"
  ELSE IF Gt(rate, Int2Num(20)) THEN "high"
  ELSE "normal"

getBloodPressureStatus(bp) ==
  IF Gt(bp.systolic, Int2Num(140)) \/ Gt(bp.diastolic, Int2Num(90)) THEN "high"
  ELSE IF Lt(bp.systolic, Int2Num(90)) \/ Lt(bp.diastolic, Int2Num(60)) THEN "low"
  ELSE "normal"

getStressStatus(level) ==
  IF Gt(level, Int2Num(70)) THEN "high"
  ELSE IF Gt(level, Int2Num(40)) THEN "moderate"
  ELSE "low"

getSpO2Status(value) ==
  IF IsNull(value) THEN "unknown"
  ELSE IF Ge(value, Int2Num(95)) THEN "normal"
  ELSE IF Ge(value, Int2Num(90)) THEN "mild"
  ELSE IF Ge(value, Int2Num(85)) THEN "moderate"
  ELSE "severe"

interpretHeartRate(hr) ==
  IF Lt(hr, Int2Num(60)) THEN "Below normal range (bradycardia)"
  ELSE IF Gt(hr, Int2Num(100)) THEN "Above normal range (tachycardia)"
  ELSE "Within normal range"

interpretHRV(hrv) ==
  IF Lt(hrv, Int2Num(20)) THEN "Lower than optimal variability"
  ELSE IF Gt(hrv, Int2Num(200)) THEN "Higher than typical variability"
  ELSE "Normal variability"

interpretRespiratoryRate(rate) ==
  IF Lt(rate, Int2Num(12)) THEN "Below normal range"
  ELSE IF Gt(rate, Int2Num(20)) THEN "Above normal range"
  ELSE "Normal breathing rate"

interpretBloodPressure(bp) ==
  IF Gt(bp.systolic, Int2Num(140)) \/ Gt(bp.diastolic, Int2Num(90))
  THEN "Elevated blood pressure"
  ELSE IF Lt(bp.systolic, Int2Num(90)) \/ Lt(bp.diastolic, Int2Num(60))
  THEN "Low blood pressure"
  ELSE "Normal blood pressure range"

interpretStressLevel(level) ==
  IF Gt(level, Int2Num(70)) THEN "High stress detected"
  ELSE IF Gt(level, Int2Num(40)) THEN "Moderate stress level"
  ELSE "Low stress level"

interpretMood(mood) ==
  CASE mood.primary = "stressed" -> "Signs of stress or anxiety detected"
    [] mood.primary = "calm" -> "Relaxed and composed state"
    [] mood.primary = "neutral" -> "Neutral emotional state"
    [] mood.primary = "active" -> "Alert and engaged state"
    [] OTHER -> "Unable to determine mood"

interpretSpO2(value) ==
  IF IsNull(value) THEN "Measurement failed"
  ELSE IF Ge(value, Int2Num(95)) THEN "Normal oxygen saturation"
  ELSE IF Ge(value, Int2Num(90)) THEN "Mild hypoxemia"
  ELSE IF Ge(value, Int2Num(85)) THEN "Moderate hypoxemia"
  ELSE "Severe hypoxemia"

generateStressRecommendations(level) ==
  IF Gt(level, Int2Num(70))
  THEN <<"Practice deep breathing exercises",
         "Consider meditation or mindfulness",
         "Take regular breaks",
         "Ensure adequate sleep",
         "Consider consulting a healthcare professional">>
  ELSE IF Gt(level, Int2Num(40))
  THEN <<"Take short breaks during work",
         "Practice simple relaxation techniques",
         "Maintain regular exercise",
         "Ensure work-life balance">>
  ELSE <<"Maintain current stress management practices",
         "Continue regular exercise",
         "Keep up healthy sleep habits">>

generateMoodSuggestions(mood) ==
  CASE mood.primary = "stressed" ->
         <<"Practice relaxation techniques", "Take breaks when needed",
           "Consider mindfulness exercises">>
    [] mood.primary = "calm" ->
         <<"Maintain current relaxation practices", "Continue balanced lifestyle">>
    [] mood.primary = "neutral" ->
         <<"Consider engaging activities", "Maintain regular exercise">>
    [] mood.primary = "active" ->
         <<"Channel energy into productive tasks", "Maintain balanced activity levels">>
    [] OTHER -> <<"Maintain regular healthy habits">>

formatHeartRateData(heartRate) ==
  [value |-> heartRate.value,
   unit |-> "bpm",
   confidence |-> heartRate.confidence,
   interpretation |-> interpretHeartRate(heartRate.value),
   status |-> getHeartRateStatus(heartRate.value),
   range |-> [low |-> 60, high |-> 100, measured |-> heartRate.value]]

formatHRVData(hrv) ==
  [value |-> hrv.value,
   unit |-> "ms",
   confidence |-> hrv.confidence,
   interpretation |-> interpretHRV(hrv.value),
   status |-> getHRVStatus(hrv.value),
   range |-> [low |-> 20, high |-> 200, measured |-> hrv.value]]

formatRespiratoryData(respRate) ==
  [value |-> respRate.value,
   unit |-> "breaths/min",
   confidence |-> respRate.confidence,
   interpretation |-> interpretRespiratoryRate(respRate.value),
   status |-> getRespiratoryStatus(respRate.value),
   range |-> [low |-> 12, high |-> 20, measured |-> respRate.value]]

formatBloodPressureData(bp) ==
  [value |-> [systolic |-> bp.systolic, diastolic |-> bp.diastolic],
   unit |-> "mmHg",
   confidence |-> bp.confidence,
   interpretation |-> interpretBloodPressure(bp),
   status |-> getBloodPressureStatus(bp),
   range |-> [systolic |-> [low |-> 90, high |-> 140, measured |-> bp.systolic],
              diastolic |-> [low |-> 60, high |-> 90, measured |-> bp.diastolic]]]

formatStressData(stress) ==
  [value |-> stress.value,
   unit |-> "score",
   confidence |-> stress.confidence,
   interpretation |-> interpretStressLevel(stress.value),
   status |-> getStressStatus(stress.value),
   range |-> [low |-> 0, high |-> 100, measured |-> stress.value],
   recommendations |-> generateStressRecommendations(stress.value)]

formatMoodData(mood) ==
  [value |-> mood.primary,
   confidence |-> mood.confidence,
   interpretation |-> interpretMood(mood),
   status |-> mood.primary,
   validStates |-> <<"calm", "stressed", "active", "neutral">>,
   suggestions |-> generateMoodSuggestions(mood)]

formatSpO2Data(spO2) ==
  IF IsNull(spO2.value)
  THEN [value |-> Null,
        unit |-> "%",
        confidence |-> "low",
        interpretation |-> "Measurement failed",
        status |-> "unknown",
        range |-> [low |-> 95, high |-> 100, measured |-> Null],
        perfusionIndex |->
          [value |-> Null,
           range |-> [low |-> Rat(1, 2), high |-> 10, measured |-> Null]],
        quality |->
          [value |-> Null, range |-> [low |-> 0, high |-> 1, measured |-> Null]]]
  ELSE [value |-> spO2.value,
        unit |-> "%",
        confidence |-> spO2.confidence,
        interpretation |-> interpretSpO2(spO2.value),
        status |-> getSpO2Status(spO2.value),
        range |-> [low |-> 95, high |-> 100, measured |-> spO2.value],
        perfusionIndex |->
          [value |-> spO2.perfusionIndex,
           range |-> [low |-> Rat(1, 2), high |-> 10,
                      measured |-> spO2.perfusionIndex]],
        quality |->
          [value |-> spO2.quality.score,
           confidence |-> spO2.quality.confidence,
           reliability |-> spO2.quality.reliability,
           range |-> [low |-> 0, high |-> 1, measured |-> spO2.quality.score]]]

\* a summary that tests the heart rate variability only
generateHealthSummaryHRVOnly(vitals) ==
  [concerns |->
     IF Lt(vitals.hrv.value, Int2Num(20))
     THEN <<Text("Lower than optimal heart rate variability")>> ELSE <<>>,
   positives |->
     IF Lt(vitals.hrv.value, Int2Num(20))
     THEN <<>> ELSE <<Text("Good heart rate variability")>>,
   overallStatus |->
     IF Lt(vitals.hrv.value, Int2Num(20)) THEN "Needs Attention" ELSE "Healthy"]

generateHealthSummary(vitals) ==
  LET hrOut == \/ Lt(vitals.heartRate.value, Int2Num(60))
               \/ Gt(vitals.heartRate.value, Int2Num(100))
      hrvLow == Lt(vitals.hrv.value, Int2Num(20))
      v == vitals.spO2.value
      concerns ==
        (IF hrOut THEN <<Text("Heart rate outside normal range")>> ELSE <<>>)
        \o (IF hrvLow THEN <<Text("Lower than optimal heart rate variability")>>
            ELSE <<>>)
        \o (IF Gt(vitals.stressLevel.value, Int2Num(70))
            THEN <<Text("Elevated stress levels detected")>> ELSE <<>>)
        \o (IF IsNull(v) \/ Ge(v, Int2Num(95)) THEN <<>>
            ELSE IF Ge(v, Int2Num(90))
            THEN <<Template("Mild reduction in oxygen saturation (%)", v)>>
            ELSE <<Template(
                   "Low oxygen saturation (%) - immediate attention recommended", v)>>)
      positives ==
        (IF hrOut THEN <<>> ELSE <<Text("Heart rate within normal range")>>)
        \o (IF hrvLow THEN <<>> ELSE <<Text("Good heart rate variability")>>)
        \o (IF ~IsNull(v) /\ Ge(v, Int2Num(95))
            THEN <<Text("Normal oxygen saturation levels")>> ELSE <<>>)
  IN  [concerns |-> concerns,
       positives |-> positives,
       overallStatus |-> IF Len(concerns) = 0 THEN "Healthy" ELSE "Needs Attention"]

generateRecommendations(vitals) ==
  (IF Gt(vitals.heartRate.value, Int2Num(100))
   THEN <<[category |-> "Heart Health",
           suggestions |-> <<"Practice deep breathing exercises",
                             "Maintain regular physical activity",
                             "Ensure adequate sleep">>]>>
   ELSE <<>>)
  \o (IF Gt(vitals.stressLevel.value, Int2Num(70))
      THEN <<[category |-> "Stress Management",
              suggestions |-> <<"Practice mindfulness or meditation",
                                "Take regular breaks during work",
                                "Consider stress-reducing activities">>]>>
      ELSE <<>>)
  \o (IF ~IsNull(vitals.spO2.value) /\ Lt(vitals.spO2.value, Int2Num(95))
      THEN <<[category |-> "Oxygen Saturation",
              suggestions |->
                <<IF Lt(vitals.spO2.value, Int2Num(90))
                  THEN "Seek immediate medical attention if low oxygen persists"
                  ELSE "Consider following up with healthcare provider",
                  "Practice deep breathing exercises",
                  "Ensure proper ventilation in your environment",
                  "Consider position changes to optimize breathing",
                  "Monitor for any breathing difficulties">>]>>
      ELSE <<>>)

identifyHealthConcerns(vitals) ==
  (IF Gt(vitals.heartRate.value, Int2Num(100))
   THEN <<[type |-> "Elevated Heart Rate",
           severity |-> "Moderate",
           recommendation |->
             "Consider relaxation techniques and consult healthcare provider if persistent"]>>
   ELSE <<>>)
  \o (IF Gt(vitals.stressLevel.value, Int2Num(70))
      THEN <<[type |-> "High Stress",
              severity |-> "Moderate",
              recommendation |->
                "Practice stress management techniques and ensure adequate rest"]>>
      ELSE <<>>)
  \o (IF ~IsNull(vitals.spO2.value) /\ Lt(vitals.spO2.value, Int2Num(95))
      THEN <<[type |-> "Reduced Oxygen Saturation",
              severity |-> IF Lt(vitals.spO2.value, Int2Num(90))
                           THEN "High" ELSE "Moderate",
              recommendation |->
                IF Lt(vitals.spO2.value, Int2Num(90))
                THEN "Seek immediate medical attention if this persists"
                ELSE "Monitor oxygen levels and consult healthcare provider if persistent"]>>
      ELSE <<>>)

identifyLimitations(vitals) ==
  (IF vitals.bloodPressure.confidence = "low"
   THEN <<"Blood pressure measurements are experimental and should not be used for medical purposes">>
   ELSE <<>>)
  \o (IF vitals.signalQuality.quality = "poor"
      THEN <<"Signal quality issues may affect measurement accuracy">>
      ELSE <<>>)
  \o (IF vitals.spO2.confidence = "low"
      THEN <<"Oxygen saturation measurements are experimental and should be verified with medical-grade equipment">>
      ELSE <<>>)

assessLightingQuality(signalQuality) ==
  LET snr == signalQuality.signalToNoise
  IN  IF Gt(snr, Int2Num(2)) THEN "good"
      ELSE IF Gt(snr, Rat(3, 2)) THEN "adequate"
      ELSE "poor"

assessMovementStability(signalQuality) ==
  LET snr == signalQuality.signalToNoise
  IN  IF Gt(snr, Rat(5, 2)) THEN "stable"
      ELSE IF Gt(snr, Rat(3, 2)) THEN "moderate"
      ELSE "unstable"

assessRecordingDuration(vitals) == "adequate"

assessMeasurementQuality(vitals) ==
  [signalQuality |-> vitals.signalQuality.quality,
   confidence |-> vitals.signalQuality.confidence,
   factors |-> [lighting |-> assessLightingQuality(vitals.signalQuality),
                movement |-> assessMovementStability(vitals.signalQuality),
                duration |-> assessRecordingDuration(vitals)]]

\* `VR-${Date.now().toString(36)}-${Math.random().toString(36).substr(2, 5)}`
generateReportId == <<"VR", clock, rng>>

MsPerSecond == 1000

\* format(timestamp, "yyyy-MM-dd HH:mm:ss"): the time to the second
FormatTimestamp(timestamp) == timestamp \div MsPerSecond

generateVitalReport(vitals, recordingDetails) ==
  LET timestamp == clock
  IN  [metadata |->
         [reportId |-> generateReportId,
          generatedAt |-> FormatTimestamp(timestamp),
          recordingDuration |-> recordingDetails.duration,
          recordingQuality |-> recordingDetails.videoQuality,
          processingQuality |-> vitals.signalQuality],
       vitals |->
         [heartRate |-> formatHeartRateData(vitals.heartRate),
          heartRateVariability |-> formatHRVData(vitals.hrv),
          respiratoryRate |-> formatRespiratoryData(vitals.respiratoryRate),
          bloodPressure |-> formatBloodPressureData(vitals.bloodPressure),
          stressLevel |-> formatStressData(vitals.stressLevel),
          mood |-> formatMoodData(vitals.mood),
          spO2 |-> formatSpO2Data(vitals.spO2)],
       analysis |->
         [summary |-> generateHealthSummary(vitals),
          concerns |-> identifyHealthConcerns(vitals),
          recommendations |-> generateRecommendations(vitals)],
       reliability |->
         [overallConfidence |-> calculateOverallConfidence(vitals),
          measurementQuality |-> assessMeasurementQuality(vitals),
          limitations |-> identifyLimitations(vitals)]]

(***************************************************************************)
(* Harness for calculateOverallConfidence: the six confidences range over  *)
(* {high, moderate, low}.                                                  *)
(***************************************************************************)
Confidences == {"high", "moderate", "low"}

SQInputs ==
  {[signalToNoise |-> Int2Num(1), quality |-> "poor", confidence |-> "moderate"],
   [signalToNoise |-> Int2Num(3), quality |-> "good", confidence |-> "high"]}

ConfidenceBundles ==
  {[heartRate |-> [confidence |-> c[1]], hrv |-> [confidence |-> c[2]],
    respiratoryRate |-> [confidence |-> c[3]],
    bloodPressure |-> [confidence |-> c[4]],
    stressLevel |-> [confidence |-> c[5]], spO2 |-> [confidence |-> c[6]],
    signalQuality |-> sq] : c \in [1..6 -> Confidences], sq \in SQInputs}

InitOverall ==
  /\ pending \in {<<[f |-> "calculateOverallConfidence", x |-> v]>> :
                    v \in ConfidenceBundles}
  /\ NoCall

CallOverall ==
  /\ Ready("calculateOverallConfidence")
  /\ Apply("calculateOverallConfidence",
           calculateOverallConfidence(Head(pending).x))

NextOverall == CallOverall

SpecOverall == InitOverall /\ [][NextOverall]_vars

\* C10: the overall level is decided by the average of the weights
\* high=1.0, moderate=0.6, low=0.3 over the six metrics: high iff the
\* average is > 0.8, moderate iff 0.5 < average <= 0.8, low otherwise; so it
\* is the same for every assignment of the same confidences to the metrics.
C10_OverallClaim ==
  fn = "calculateOverallConfidence" =>
    LET tenths(c) == IF c = "high" THEN 10 ELSE IF c = "moderate" THEN 6 ELSE 3
        total == tenths(arg.heartRate.confidence) + tenths(arg.hrv.confidence)
                 + tenths(arg.respiratoryRate.confidence)
                 + tenths(arg.bloodPressure.confidence)
                 + tenths(arg.stressLevel.confidence)
                 + tenths(arg.spO2.confidence)
    IN  ret.level = IF total > 48 THEN "high"
                    ELSE IF total > 30 THEN "moderate"
                    ELSE "low"

(***************************************************************************)
(* The request handler analyzeVideo (controllers/videoController.js) with  *)
(* processVitalSigns inlined statement by statement.  A frame is a tensor  *)
(* of one pixel; the upload is a sequence of at most MaxFrames frames.     *)
(***************************************************************************)
MaxFrames == 5

MaxRandom == 2

MaxTicks == 1


Pixels == {<<Int2Num(2), Int2Num(1), Int2Num(1)>>,
           <<Int2Num(3), Int2Num(2), Int2Num(2)>>}

\* a three-frame recording whose red (and blue) means are 32, 0, 49
DarkFrameVideo ==
  << <<<<Int2Num(32), Int2Num(1), Int2Num(32)>>>>,
     <<<<Int2Num(0), Int2Num(1), Int2Num(0)>>>>,
     <<<<Int2Num(49), Int2Num(1), Int2Num(49)>>>> >>

Uploads == SeqsUpTo({<<p>> : p \in Pixels}, MaxFrames) \cup {DarkFrameVideo}

\* the statements that call into ffmpeg or TensorFlow, which raise on a
\* failed extraction or a failed tensor operation
ThrowingSteps ==
  {"extractFramesFromVideo", "extractRPPGSignal",
   "calculateRespiratoryRate", "analyzeMood"}

MIN_FACE_VISIBILITY_RATIO == Rat(6, 10)

\* assignment of a local
Assign(name, value) == loc' = (name :> value) @@ loc

InitRequest ==
  /\ pc = "validateVideoUpload"
  /\ frames \in Uploads
  /\ tensors = <<>>
  /\ liveTensors = 0
  /\ loc = <<>>
  /\ frame = <<>>
  /\ raised = "none"
  /\ spO2Fault = "none"
  /\ response = <<>>
  /\ served = <<>>
  /\ clock = 0
  /\ rng \in 1..MaxRandom
  /\ pending = <<>>
  /\ fn = ""
  /\ arg = <<>>
  /\ ret = <<>>
  /\ prev = <<>>

Goto(next) ==
  /\ pc' = next
  /\ UNCHANGED <<fnVars, frames, frame, raised, spO2Fault, response, served, clock>>

\* middleware/validateVideo.js: the frames are extracted, the face detector
\* is loaded and the loop over the frames starts
ValidateStart ==
  /\ pc = "validateVideoUpload"
  /\ loc' = [i |-> 0, validFramesCount |-> 0, tensor |-> FALSE]
  /\ Goto("validate.decodeImage")
  /\ UNCHANGED <<tensors, liveTensors, rng>>

\* tensor = tf.node.decodeImage(frameBuffers[i], 3): the tensor is created,
\* or the decoder throws and the catch block records the frame as faceless
ValidateDecode ==
  /\ pc = "validate.decodeImage"
  /\ loc.i < Len(frames)
  /\ \E decoded \in BOOLEAN :
       IF decoded
       THEN /\ liveTensors' = liveTensors + 1
            /\ loc' = [loc EXCEPT !.tensor = TRUE]
            /\ Goto("validate.estimateFaces")
       ELSE /\ Goto("validate.finally")
            /\ UNCHANGED <<liveTensors, loc>>
  /\ UNCHANGED <<tensors, rng>>

\* model.estimateFaces(tensor): one face, another number of faces, or an
\* exception that the catch block of the loop body handles
ValidateDetect ==
  /\ pc = "validate.estimateFaces"
  /\ \E outcome \in {"one face", "no single face", "throws"} :
       loc' = [loc EXCEPT !.validFramesCount =
                 IF outcome = "one face" THEN @ + 1 ELSE @]
  /\ Goto("validate.finally")
  /\ UNCHANGED <<tensors, liveTensors, rng>>

\* finally { if (tensor) tensor.dispose(); } and the loop's i++
ValidateFinally ==
  /\ pc = "validate.finally"
  /\ liveTensors' = IF loc.tensor THEN liveTensors - 1 ELSE liveTensors
  /\ loc' = [loc EXCEPT !.tensor = FALSE, !.i = @ + 1]
  /\ Goto("validate.decodeImage")
  /\ UNCHANGED <<tensors, rng>>

\* after the loop: validFramesCount is the number of frames in which exactly
\* one face was detected, confident tells whether their average detection
\* confidence reaches MIN_CONFIDENCE
ValidateUpload ==
  /\ pc = "validate.decodeImage"
  /\ loc.i = Len(frames)
  /\ \E confident \in BOOLEAN :
       LET validFramesCount == loc.validFramesCount
           faceVisibilityRatio ==
             Div(Int2Num(validFramesCount), Int2Num(Len(frames)))
           issues ==
             (IF Lt(faceVisibilityRatio, MIN_FACE_VISIBILITY_RATIO)
              THEN <<"Inconsistent face detection">> ELSE <<>>)
             \o (IF validFramesCount = 0 \/ ~confident
                 THEN <<"Low face detection quality">> ELSE <<>>)
       IN  IF Len(issues) > 0
           THEN /\ response' = [status |-> 400,
                                body |-> [error |-> "Video validation failed",
                                          issues |-> issues]]
                /\ pc' = "done"
           ELSE /\ pc' = "extractFramesFromVideo"
                /\ UNCHANGED response
  /\ loc' = <<>>
  /\ UNCHANGED <<fnVars, frames, tensors, liveTensors, frame, raised, spO2Fault,
                 served, clock, rng>>

ExtractFrames ==
  /\ pc = "extractFramesFromVideo"
  /\ Goto("decodeImage")
  /\ UNCHANGED <<tensors, liveTensors, loc, rng>>

DecodeFrames ==
  /\ pc = "decodeImage"
  /\ tensors' = frames
  /\ liveTensors' = liveTensors + Len(frames)
  /\ Goto("extractRPPGSignal")
  /\ UNCHANGED <<loc, rng>>

ExtractRPPG ==
  /\ pc = "extractRPPGSignal"
  /\ Assign("rppgSignal", extractRPPGSignal(tensors))
  /\ Goto("calculateSignalQuality")
  /\ UNCHANGED <<tensors, liveTensors, rng>>

SignalQuality ==
  /\ pc = "calculateSignalQuality"
  /\ Assign("signalQuality", calculateSignalQuality(loc.rppgSignal))
  /\ Goto("calculateHeartRate")
  /\ UNCHANGED <<tensors, liveTensors, rng>>

HeartRate ==
  /\ pc = "calculateHeartRate"
  /\ Assign("heartRate", calculateHeartRate(loc.rppgSignal))
  /\ Goto("calculateHRV")
  /\ UNCHANGED <<tensors, liveTensors, rng>>

HRV ==
  /\ pc = "calculateHRV"
  /\ Assign("hrv", calculateHRV(loc.rppgSignal))
  /\ Goto("calculateRespiratoryRate")
  /\ UNCHANGED <<tensors, liveTensors, rng>>

RespiratoryRate ==
  /\ pc = "calculateRespiratoryRate"
  /\ Assign("respiratoryRate", calculateRespiratoryRate(tensors))
  /\ Goto("estimateBloodPressure")
  /\ UNCHANGED <<tensors, liveTensors, rng>>

BloodPressure ==
  /\ pc = "estimateBloodPressure"
  /\ Assign("bloodPressure", estimateBloodPressure(loc.rppgSignal))
  /\ Goto("calculateStressLevel")
  /\ UNCHANGED <<tensors, liveTensors, rng>>

StressLevel ==
  /\ pc = "calculateStressLevel"
  /\ Assign("stressLevel", calculateStressLevel(loc.hrv.value, loc.respiratoryRate.value))
  /\ Goto("analyzeMood")
  /\ UNCHANGED <<tensors, liveTensors, rng>>

Mood ==
  /\ pc = "analyzeMood"
  /\ Assign("mood", analyzeMood(tensors))
  /\ Goto("preprocessSignals")
  /\ UNCHANGED <<tensors, liveTensors, rng>>

\* the statements of the try block of calculateSpO2
SpO2Steps ==
  {"preprocessSignals", "butterworth", "calculateACDCComponents",
   "calculateRatioAmplitude", "calculateCalibatedSpO2", "assessSignalQuality",
   "calculatePerfusionIndex"}

\* a statement of calculateSpO2 assigns its locals and passes control on
SpO2Step(locals, next) ==
  /\ frame' = locals @@ frame
  /\ pc' = next
  /\ UNCHANGED <<fnVars, frames, tensors, liveTensors, loc, raised, spO2Fault,
                 response, served, clock, rng>>

SpO2Preprocess ==
  /\ pc = "preprocessSignals"
  /\ SpO2Step(preprocessSignals(loc.rppgSignal), "butterworth")

SpO2Filter ==
  /\ pc = "butterworth"
  /\ SpO2Step([filteredRed |-> butterworth(frame.redSignal, FilterOptions),
               filteredIR |-> butterworth(frame.infraredSignal, FilterOptions)],
              "calculateACDCComponents")

SpO2Components ==
  /\ pc = "calculateACDCComponents"
  /\ SpO2Step([redComponents |-> calculateACDCComponents(frame.filteredRed),
               irComponents |-> calculateACDCComponents(frame.filteredIR)],
              "calculateRatioAmplitude")

\* R = ratioAmplitude * 0.6 + ratioArea * 0.4
SpO2Ratio ==
  /\ pc = "calculateRatioAmplitude"
  /\ SpO2Step([R |-> Add(Mul(calculateRatioAmplitude(frame.redComponents,
                                                     frame.irComponents),
                             Rat(6, 10)),
                         Mul(calculateRatioArea(frame.filteredRed, frame.filteredIR),
                             Rat(4, 10)))],
              "calculateCalibatedSpO2")

SpO2Calibrate ==
  /\ pc = "calculateCalibatedSpO2"
  /\ SpO2Step([spO2 |-> calculateCalibatedSpO2(frame.R)], "assessSignalQuality")

SpO2Quality ==
  /\ pc = "assessSignalQuality"
  /\ SpO2Step([quality |-> assessSignalQuality(frame.redSignal,
                                               frame.infraredSignal, frame.R)],
              "calculatePerfusionIndex")

\* the perfusion index is computed and the try block returns its result
SpO2Return ==
  /\ pc = "calculatePerfusionIndex"
  /\ Assign("spO2", SpO2Result(frame.redComponents, frame.irComponents, frame.R,
                               frame.spO2, frame.quality,
                               calculatePerfusionIndex(frame.redComponents)))
  /\ frame' = <<>>
  /\ pc' = "return"
  /\ UNCHANGED <<fnVars, frames, tensors, liveTensors, raised, spO2Fault,
                 response, served, clock, rng>>

\* a statement of the try block of calculateSpO2 raises an exception
SpO2Throw ==
  /\ pc \in SpO2Steps
  /\ spO2Fault' = pc
  /\ pc' = "calculateSpO2.catch"
  /\ UNCHANGED <<fnVars, frames, tensors, liveTensors, loc, frame, raised,
                 response, served, clock, rng>>

\* the handler of calculateSpO2 runs and the call completes
SpO2Caught ==
  /\ pc = "calculateSpO2.catch"
  /\ LET c == SpO2Catch(spO2Fault)
     IN  IF c.threw
         THEN /\ raised' = "calculateSpO2"
              /\ pc' = "catch"
              /\ UNCHANGED loc
         ELSE /\ Assign("spO2", c.value)
              /\ pc' = "return"
              /\ UNCHANGED raised
  /\ frame' = <<>>
  /\ UNCHANGED <<fnVars, frames, tensors, liveTensors, spO2Fault, response,
                 served, clock, rng>>

\* processVitalSigns returns the bundle to analyzeVideo
ReturnVitals ==
  /\ pc = "return"
  /\ Assign("vitals",
            [heartRate |-> loc.heartRate,
             hrv |-> loc.hrv,
             respiratoryRate |-> loc.respiratoryRate,
             bloodPressure |-> loc.bloodPressure,
             stressLevel |-> loc.stressLevel,
             mood |-> loc.mood,
             spO2 |-> loc.spO2,
             signalQuality |-> loc.signalQuality])
  /\ Goto("generateVitalReport")
  /\ UNCHANGED <<tensors, liveTensors, rng>>

GenerateReport ==
  /\ pc = "generateVitalReport"
  /\ LET recordingDetails ==
           [duration |-> Div(Int2Num(Len(tensors)), Int2Num(5)),
            timestamp |-> clock,
            videoQuality |-> Undefined]
     IN  loc' = ("report" :> generateVitalReport(loc.vitals, recordingDetails))
                @@ ("recordingDetails" :> recordingDetails) @@ loc
  /\ rng' \in 1..MaxRandom
  /\ Goto("dispose")
  /\ UNCHANGED <<tensors, liveTensors>>

DisposeTensors ==
  /\ pc = "dispose"
  /\ liveTensors' = liveTensors - Len(tensors)
  /\ Goto("respond")
  /\ UNCHANGED <<tensors, loc, rng>>

Respond ==
  /\ pc = "respond"
  /\ response' = [status |-> 200,
                  body |-> [success |-> TRUE,
                            message |-> "Video analysis completed successfully",
                            report |-> loc.report]]
  /\ pc' = "done"
  /\ UNCHANGED <<fnVars, frames, tensors, liveTensors, loc, frame, raised, spO2Fault,
                 served, clock, rng>>

\* a statement of the try block raises an exception
Throw ==
  /\ pc \in ThrowingSteps
  /\ raised' = pc
  /\ pc' = "catch"
  /\ UNCHANGED <<fnVars, frames, tensors, liveTensors, loc, frame, spO2Fault,
                 response, served, clock, rng>>

\* frameBuffers.map(decodeImage) raises at the buffer of frame k: the tensors
\* of the k - 1 frames before it have been created, frameTensors is never
\* assigned
DecodeThrow ==
  /\ pc = "decodeImage"
  /\ \E k \in 1..Len(frames) : liveTensors' = liveTensors + (k - 1)
  /\ raised' = pc
  /\ pc' = "catch"
  /\ UNCHANGED <<fnVars, frames, tensors, loc, frame, spO2Fault, response,
                 served, clock, rng>>

Catch ==
  /\ pc = "catch"
  /\ response' = [status |-> 500,
                  body |-> [success |-> FALSE,
                            message |-> "Failed to analyze video",
                            error |-> raised]]
  /\ pc' = "done"
  /\ UNCHANGED <<fnVars, frames, tensors, liveTensors, loc, frame, raised, spO2Fault,
                 served, clock, rng>>

\* time passes between two requests
Tick ==
  /\ pc = "done"
  /\ clock < MaxTicks * MsPerSecond
  /\ clock' = clock + MsPerSecond
  /\ UNCHANGED <<fnVars, pc, frames, tensors, liveTensors, loc, frame, raised,
                 spO2Fault, response, served, rng>>

\* the same video is uploaded again
NextRequest ==
  /\ pc = "done"
  /\ served = <<>>
  /\ response.status = 200
  /\ served' = Append(served, [recordingDetails |-> loc.recordingDetails,
                               vitals |-> loc.vitals,
                               response |-> response])
  /\ pc' = "validateVideoUpload"
  /\ tensors' = <<>>
  /\ loc' = <<>>
  /\ response' = <<>>
  /\ UNCHANGED <<fnVars, frames, liveTensors, frame, raised, spO2Fault, clock, rng>>

Steps ==
  \/ ValidateStart
  \/ ValidateDecode
  \/ ValidateDetect
  \/ ValidateFinally
  \/ ValidateUpload
  \/ ExtractFrames
  \/ DecodeFrames
  \/ ExtractRPPG
  \/ SignalQuality
  \/ HeartRate
  \/ HRV
  \/ RespiratoryRate
  \/ BloodPressure
  \/ StressLevel
  \/ Mood
  \/ SpO2Preprocess
  \/ SpO2Filter
  \/ SpO2Components
  \/ SpO2Ratio
  \/ SpO2Calibrate
  \/ SpO2Quality
  \/ SpO2Return
  \/ ReturnVitals
  \/ GenerateReport
  \/ DisposeTensors
  \/ Respond

Next ==
  \/ Steps
  \/ SpO2Throw
  \/ SpO2Caught
  \/ Throw
  \/ DecodeThrow
  \/ Catch

Spec == InitRequest /\ [][Next]_vars

\* a series of at least two samples, all equal
ConstantSeries(signal) ==
  /\ Len(signal) >= 2
  /\ \A i \in 1..Len(signal) : signal[i] = signal[1]

\* C2: for a constant (zero-variance) RGB series the pipeline computes the
\* heart rate without throwing, hrv.confidence is "low", and spO2.value is
\* null (not NaN) with spO2.confidence "low".
C2_ConstantSeriesClaim ==
  (pc = "return" /\ spO2Fault = "none" /\ ConstantSeries(loc.rppgSignal)) =>
    /\ raised = "none"
    /\ loc.heartRate.value.k \in {"fin", "null"}
    /\ loc.hrv.confidence = "low"
    /\ IsNull(loc.spO2.value)
    /\ loc.spO2.confidence = "low"

\* the requests answered with a report
Reported == pc = "done" /\ response /= <<>> /\ response.status = 200

\* C3: an exception raised in any step of calculateSpO2 is caught inside
\* calculateSpO2 and becomes the result {value: null, confidence: "low",
\* error}; nothing is thrown to processVitalSigns, the metrics computed
\* before are returned in the bundle unchanged and the request is answered
\* with a report.
C3_SpO2FailureContained ==
  (spO2Fault /= "none" /\ pc /= "calculateSpO2.catch") =>
    /\ raised = "none"
    /\ pc /= "catch"
    /\ IsNull(loc.spO2.value)
    /\ loc.spO2.confidence = "low"
    /\ loc.spO2.error = spO2Fault
    /\ ("vitals" \in DOMAIN loc =>
          /\ loc.vitals.spO2 = loc.spO2
          /\ loc.vitals.heartRate = calculateHeartRate(loc.rppgSignal)
          /\ loc.vitals.hrv = calculateHRV(loc.rppgSignal)
          /\ loc.vitals.respiratoryRate = calculateRespiratoryRate(tensors)
          /\ loc.vitals.bloodPressure = estimateBloodPressure(loc.rppgSignal)
          /\ loc.vitals.mood = analyzeMood(tensors))
    /\ (pc = "done" =>
          /\ Reported
          /\ response.body.report.vitals.spO2.status = "unknown"
          /\ response.body.report.vitals.heartRate.value = loc.heartRate.value)

\* the AC/DC step of calculateSpO2 throws on a three-frame upload with one
\* peak: the report carries the heart rate 100 and an unknown SpO2
C3_Witness ==
  /\ Reported
  /\ spO2Fault = "calculateACDCComponents"
  /\ Len(frames) = 3
  /\ loc.spO2.error = "calculateACDCComponents"
  /\ response.body.report.vitals.spO2.interpretation = "Measurement failed"
  /\ response.body.report.vitals.heartRate.value = Int2Num(100)

\* the statements of processVitalSigns that compute one metric
MetricSteps ==
  {"calculateHeartRate", "calculateHRV", "calculateRespiratoryRate",
   "estimateBloodPressure", "calculateStressLevel", "analyzeMood",
   "calculateSpO2"}

\* C4: a failure while computing one metric does not prevent the others from
\* being computed and returned: the request is still answered with a report.
C4_PerMetricIsolation ==
  (pc = "done" /\ raised \in MetricSteps) =>
    /\ Reported
    /\ "vitals" \in DOMAIN loc

\* C5: for a series of fewer than two samples every analyzer returns a null
\* value (or reports insufficient data); none returns a number or NaN.
C5_ShortSeriesClaim ==
  (pc = "return" /\ spO2Fault = "none" /\ Len(loc.rppgSignal) < 2) =>
    /\ IsNull(loc.heartRate.value)
    /\ IsNull(loc.hrv.value)
    /\ IsNull(loc.respiratoryRate.value)
    /\ IsNull(loc.bloodPressure.systolic)
    /\ IsNull(loc.bloodPressure.diastolic)
    /\ IsNull(loc.spO2.value)

NextRepeat ==
  \/ Steps
  \/ Tick
  \/ NextRequest

SpecRepeat == InitRequest /\ [][NextRepeat]_vars

\* C7: processVitalSigns on the same frames returns the same bundle, and
\* generateVitalReport on the same bundle and the same recording context
\* returns the same report in every field.
C7_Determinism ==
  (Reported /\ served /= <<>>) =>
    /\ loc.vitals = served[1].vitals
    /\ (loc.recordingDetails = served[1].recordingDetails =>
          response.body.report = served[1].response.body.report)

(***************************************************************************)
(* Harness for generateVitalReport: bundles whose metric values range over *)
(* null and numbers on both sides of the range limits.                     *)
(***************************************************************************)
Metric(value, confidence) == [value |-> value, confidence |-> confidence]

HeartRateValues == {Null, Int2Num(50), Int2Num(72), Int2Num(120)}

HRVValues == {Null, Int2Num(10), Int2Num(50)}

RespiratoryValues == {Null, Int2Num(15)}

StressValues == {Null, Int2Num(34), Int2Num(76)}

SpO2Values == {Null, NaN, Int2Num(97), Int2Num(92), Int2Num(85)}

ReportBundles ==
  {[heartRate |-> Metric(hr, "moderate"),
    hrv |-> Metric(hv, "moderate"),
    respiratoryRate |-> Metric(rr, "moderate"),
    bloodPressure |-> estimateBloodPressure(<<>>),
    stressLevel |-> Metric(st, "moderate"),
    mood |-> analyzeMood(<<>>),
    spO2 |-> [value |-> sp, confidence |-> "low",
              perfusionIndex |-> Int2Num(1),
              quality |-> [score |-> Rat(1, 2), confidence |-> "low",
                           reliability |-> Rat(1, 2)]],
    signalQuality |-> calculateSignalQuality(<<>>)] :
     hr \in HeartRateValues, hv \in HRVValues, rr \in RespiratoryValues,
     st \in StressValues, sp \in SpO2Values}

InitReport ==
  /\ pending \in {<<[f |-> "generateVitalReport",
                     x |-> [vitals |-> v,
                            recordingDetails |->
                              [duration |-> Int2Num(8), timestamp |-> 0,
                               videoQuality |-> Undefined]]]>> :
                    v \in ReportBundles}
  /\ NoCall

CallReport ==
  /\ Ready("generateVitalReport")
  /\ Apply("generateVitalReport",
           generateVitalReport(Head(pending).x.vitals,
                               Head(pending).x.recordingDetails))

NextReport == CallReport

SpecReport == InitReport /\ [][NextReport]_vars

\* the texts of the summary's concerns
ConcernTexts(report) ==
  {report.analysis.summary.concerns[i][1] :
     i \in 1..Len(report.analysis.summary.concerns)}

\* C6: a metric whose value is null is rendered with status "unknown" and is
\* never compared as a number: it adds no range-based concern to the summary.
C6_NullIsUnknown ==
  fn = "generateVitalReport" =>
    LET v == arg.vitals
        r == ret
    IN  /\ (IsNull(v.heartRate.value) =>
              /\ r.vitals.heartRate.status = "unknown"
              /\ "Heart rate outside normal range" \notin ConcernTexts(r))
        /\ (IsNull(v.hrv.value) =>
              /\ r.vitals.heartRateVariability.status = "unknown"
              /\ "Lower than optimal heart rate variability" \notin ConcernTexts(r))
        /\ (IsNull(v.respiratoryRate.value) =>
              r.vitals.respiratoryRate.status = "unknown")
        /\ (IsNull(v.stressLevel.value) =>
              r.vitals.stressLevel.status = "unknown")
        /\ (IsNull(v.spO2.value) =>
              r.vitals.spO2.status = "unknown")

(***************************************************************************)
(* The range tables of the report, read off the answered request.          *)
(***************************************************************************)
\* lo <= x <= hi
InRange(x, lo, hi) == Ge(x, Int2Num(lo)) /\ Le(x, Int2Num(hi))

\* status is normal iff x is in [lo, hi], low iff below, high iff above
TableStatus(status, x, lo, hi) ==
  /\ (status = "normal" <=> InRange(x, lo, hi))
  /\ (status = "low" <=> Lt(x, Int2Num(lo)))
  /\ (status = "high" <=> Gt(x, Int2Num(hi)))

\* the SpO2 table: normal from 95, mild from 90, moderate from 85, else severe
SpO2TableStatus(status, x) ==
  /\ (status = "normal" <=> Ge(x, Int2Num(95)))
  /\ (status = "mild" <=> Ge(x, Int2Num(90)) /\ Lt(x, Int2Num(95)))
  /\ (status = "moderate" <=> Ge(x, Int2Num(85)) /\ Lt(x, Int2Num(90)))
  /\ (status = "severe" <=> Lt(x, Int2Num(85)))

\* the statuses of a report follow the tables for the bundle's non-null values
FollowsRangeTables(v, r) ==
  /\ (~IsNull(v.heartRate.value) =>
        TableStatus(r.heartRate.status, v.heartRate.value, 60, 100))
  /\ (~IsNull(v.hrv.value) =>
        TableStatus(r.heartRateVariability.status, v.hrv.value, 20, 200))
  /\ (~IsNull(v.respiratoryRate.value) =>
        TableStatus(r.respiratoryRate.status, v.respiratoryRate.value, 12, 20))
  /\ (r.bloodPressure.status = "normal" <=>
        /\ InRange(v.bloodPressure.systolic, 90, 140)
        /\ InRange(v.bloodPressure.diastolic, 60, 90))
  /\ (~IsNull(v.spO2.value) => SpO2TableStatus(r.spO2.status, v.spO2.value))

\* C11: for non-null values the report status follows the range tables: heart
\* rate normal iff 60..100 (low below, high above), HRV normal iff 20..200,
\* respiratory rate normal iff 12..20, blood pressure normal iff systolic in
\* 90..140 and diastolic in 60..90, SpO2 normal iff >= 95, mild iff in
\* [90, 95), moderate iff in [85, 90), severe iff < 85.
C11_RangeTables ==
  Reported => FollowsRangeTables(loc.vitals, response.body.report.vitals)

\* every metric of the bundle is a number inside its normal range
AllInRange(v) ==
  /\ InRange(v.heartRate.value, 60, 100)
  /\ InRange(v.hrv.value, 20, 200)
  /\ InRange(v.respiratoryRate.value, 12, 20)
  /\ InRange(v.bloodPressure.systolic, 90, 140)
  /\ InRange(v.bloodPressure.diastolic, 60, 90)
  /\ Le(v.stressLevel.value, Int2Num(70))
  /\ ~IsNull(v.spO2.value) /\ Ge(v.spO2.value, Int2Num(95))

\* C12: summary.overallStatus is "Healthy" exactly when the summary's list of
\* concerns is empty; a Healthy report has an empty analysis.concerns list as
\* well; a bundle with every metric present and in range is reported Healthy
\* with no concerns.
C12_HealthyIffNoConcerns ==
  fn = "generateVitalReport" =>
    /\ ret.analysis.summary.overallStatus \in {"Healthy", "Needs Attention"}
    /\ (ret.analysis.summary.overallStatus = "Healthy" <=>
          ret.analysis.summary.concerns = <<>>)
    /\ (ret.analysis.summary.overallStatus = "Healthy" =>
          ret.analysis.concerns = <<>>)
    /\ (AllInRange(arg.vitals) =>
          /\ ret.analysis.summary.overallStatus = "Healthy"
          /\ ret.analysis.summary.concerns = <<>>
          /\ ret.analysis.concerns = <<>>)

\* the bundle with heart rate 72 and SpO2 97 and every other metric in range
\* is reported Healthy with both lists of concerns empty
C12_Witness ==
  /\ fn = "generateVitalReport"
  /\ arg.vitals.heartRate.value = Int2Num(72)
  /\ arg.vitals.spO2.value = Int2Num(97)
  /\ AllInRange(arg.vitals)
  /\ ret.analysis.summary.overallStatus = "Healthy"
  /\ ret.analysis.summary.concerns = <<>>
  /\ ret.analysis.concerns = <<>>

\* the members of a list
Members(list) == {list[i] : i \in 1..Len(list)}

\* C13: every bundle processVitalSigns returns has bloodPressure.confidence
\* "low", and the report built from it lists the statement that blood
\* pressure measurements are experimental among reliability.limitations.
C13_BloodPressureExperimental ==
  /\ ("vitals" \in DOMAIN loc => loc.vitals.bloodPressure.confidence = "low")
  /\ (Reported =>
        /\ response.body.report.vitals.bloodPressure.confidence = "low"
        /\ "Blood pressure measurements are experimental and should not be used for medical purposes"
             \in Members(response.body.report.reliability.limitations))

\* a five-frame upload with two peaks of amplitude 2 is reported with the
\* blood pressure 110/110, confidence low, and the experimental statement
C13_Witness ==
  /\ Reported
  /\ Len(frames) = 5
  /\ loc.vitals.bloodPressure.systolic = Int2Num(110)
  /\ loc.vitals.bloodPressure.diastolic = Int2Num(110)
  /\ loc.vitals.bloodPressure.confidence = "low"
  /\ "Blood pressure measurements are experimental and should not be used for medical purposes"
       \in Members(response.body.report.reliability.limitations)

\* C14: every tensor that analyzeVideo or the validation loop creates is
\* disposed before the handler finishes, on the success path and on every
\* path through a catch block
C14_TensorsReleased ==
  /\ pc = "done" => liveTensors = 0
  /\ pc = "extractFramesFromVideo" => liveTensors = 0

\* out is (s - mean(s)) / std(s) element-wise, all zero when std(s) = 0, and
\* every element of it is a finite number
IsNormalizationOf(out, s, mean, std) ==
  /\ Len(out) = Len(s)
  /\ \A i \in 1..Len(s) :
       /\ IsFinite(out[i])
       /\ IF IsZero(std) THEN IsZero(out[i])
          ELSE NumEq(out[i], Div(Sub(s[i], mean), std))

IsNormalized(out, s) == IsNormalizationOf(out, s, MathMean(s), MathStd(s))

\* C15: normalizeSignal(s) is (s - mean(s)) / std(s) element-wise, an
\* all-zero series of the same length when std(s) = 0, and never holds a NaN
\* or an infinite element (the two series normalised by preprocessSignals)
C15_NormalizeSignal ==
  pc = "butterworth" =>
    /\ IsNormalized(frame.redSignal, Channel(loc.rppgSignal, 1))
    /\ IsNormalized(frame.infraredSignal, InfraredSignal(loc.rppgSignal))

\* C16: the DC component is never zero where the SpO2 estimator divides by
\* it: in the perfusion of the components just computed, in the amplitude
\* ratio about to be computed from the red and the infrared components, and
\* in the perfusion index about to be computed from the red components
C16_DCNeverZeroDivisor ==
  /\ pc = "calculateRatioAmplitude" =>
       /\ ~IsZero(ToNumber(frame.redComponents.dc))
       /\ ~IsZero(ToNumber(frame.irComponents.dc))
  /\ pc = "calculatePerfusionIndex" =>
       ~IsZero(ToNumber(frame.redComponents.dc))

(***************************************************************************)
(* Harness for the pure functions of vitalSignsProcessor.js.               *)
(***************************************************************************)
\* HRV values (ms) and respiratory rates (breaths/min) on both sides of
\* every threshold of calculateStressLevel, with the non-numbers a failed
\* metric yields
StressHRVInputs ==
  {Null, NaN} \cup {Int2Num(v) : v \in {0, 9, 10, 19, 20, 29, 30, 49, 50, 99, 100, 101}}

StressRespiratoryInputs ==
  {Null, NaN}
    \cup {Int2Num(v) : v \in {0, 7, 8, 12, 13, 15, 16, 18, 19, 20, 21, 25, 26}}

StressCalls ==
  {<<[f |-> "calculateStressLevel", x |-> <<h, r>>]>> :
     h \in StressHRVInputs, r \in StressRespiratoryInputs}

MaxSamples == 5

\* green-channel samples: three levels and a sample that is not a number
SampleValues == {Int2Num(1), Int2Num(2), Int2Num(3), NaN}

PeakCalls ==
  {<<[f |-> "detectPeaks", x |-> signal]>> :
     signal \in SeqsUpTo(SampleValues, MaxSamples)}

\* rPPG series whose green channel runs over the same samples
HeartRateCalls ==
  {<<[f |-> "calculateHeartRate",
      x |-> [i \in 1..Len(signal) |-> <<Int2Num(2), signal[i], Int2Num(1)>>]]>> :
     signal \in SeqsUpTo(SampleValues, MaxSamples)}

MaxMoodFrames == 4

\* frames of three pixels: a still face, and the same face with one and with
\* four channel values changed by one level
MoodFrames ==
  LET still  == <<Int2Num(2), Int2Num(1), Int2Num(1)>>
      shade  == <<Int2Num(3), Int2Num(1), Int2Num(1)>>
      bright == <<Int2Num(4), Int2Num(2), Int2Num(1)>>
  IN  {<<still, still, still>>, <<shade, still, still>>, <<bright, shade, still>>}

\* a first call on a recording of at most two frames, then a call on a
\* recording of at most MaxMoodFrames frames
MoodCalls ==
  {<<[f |-> "analyzeMood", x |-> first], [f |-> "analyzeMood", x |-> second]>> :
     first \in SeqsUpTo(MoodFrames, 2),
     second \in SeqsUpTo(MoodFrames, MaxMoodFrames)}

InitVitals ==
  /\ \/ pending \in StressCalls
     \/ pending \in PeakCalls
     \/ pending \in HeartRateCalls
     \/ pending \in MoodCalls
  /\ NoCall

CallDetectPeaks ==
  /\ Ready("detectPeaks")
  /\ Apply("detectPeaks", detectPeaks(Head(pending).x))

CallHeartRate ==
  /\ Ready("calculateHeartRate")
  /\ Apply("calculateHeartRate", calculateHeartRate(Head(pending).x))

CallStressLevel ==
  /\ Ready("calculateStressLevel")
  /\ Apply("calculateStressLevel",
           calculateStressLevel(Head(pending).x[1], Head(pending).x[2]))

CallMood ==
  /\ Ready("analyzeMood")
  /\ Apply("analyzeMood", analyzeMood(Head(pending).x))

NextVitals ==
  \/ CallStressLevel
  \/ CallDetectPeaks
  \/ CallHeartRate
  \/ CallMood

SpecVitals == InitVitals /\ [][NextVitals]_vars

BandScores == {20, 40, 60, 80, 100}

\* score is round(hrvBand * 0.7 + respiratoryBand * weight / 10) for two band
\* scores, and lies in 0..100
IsWeightedScore(score, weight) ==
  /\ \E h \in BandScores, r \in BandScores :
       NumEq(score, Round(Add(Mul(Int2Num(h), Rat(7, 10)),
                              Mul(Int2Num(r), Rat(weight, 10)))))
  /\ Ge(score, Int2Num(0)) /\ Le(score, Int2Num(100))

\* C17: the stress score is the HRV band score weighted 0.7 plus the
\* respiratory band score weighted 0.4 (band scores in {20,40,60,80,100}),
\* rounded, and lies in 0..100 for every pair of inputs
C17_StressWeights ==
  fn = "calculateStressLevel" => IsWeightedScore(ret.value, 4)

\* C17, as the code has it: the stress score is the HRV band score weighted
\* 0.7 plus the respiratory band score weighted 0.3 (band scores in
\* {20,40,60,80,100}), rounded, and lies in 0..100 for every pair of inputs
C17_StressWeightsAmended ==
  fn = "calculateStressLevel" => IsWeightedScore(ret.value, 3)

\* HRV 19 ms (band 100) with respiratory rate 21 (band 100) scores 100, the
\* top of the range
C17_Witness ==
  /\ fn = "calculateStressLevel"
  /\ arg = <<Int2Num(19), Int2Num(21)>>
  /\ ret.value = Int2Num(100)

\* the 0-based index i is an interior sample strictly greater than both
\* neighbours
IsPeak(signal, i) ==
  /\ 0 < i /\ i < Len(signal) - 1
  /\ Gt(signal[i + 1], signal[i])
  /\ Gt(signal[i + 1], signal[i + 2])

PeakIndices(signal) == {i \in 0..(Len(signal) - 1) : IsPeak(signal, i)}

\* round(peakCount * 60 / (sampleCount / 5)), in integer arithmetic
ExpectedHeartRate(peakCount, sampleCount) ==
  IF sampleCount = 0 THEN NaN
  ELSE Int2Num((600 * peakCount + sampleCount) \div (2 * sampleCount))

\* C18: detectPeaks returns, in increasing order, exactly the interior
\* indices whose sample is strictly greater than both neighbours (never the
\* first or the last sample or a plateau sample), and heartRate.value is
\* round(peakCount * 60 / durationSeconds) with durationSeconds =
\* sampleCount / 5
C18_PeaksAndHeartRate ==
  /\ fn = "detectPeaks" =>
       /\ \A j \in 1..(Len(ret) - 1) : ret[j] < ret[j + 1]
       /\ {ret[j] : j \in 1..Len(ret)} = PeakIndices(arg)
  /\ fn = "calculateHeartRate" =>
       ret.value = ExpectedHeartRate(Cardinality(PeakIndices(Channel(arg, 2))),
                                     Len(arg))

\* a five-sample series with two peaks, at the indices 1 and 3
C18_Witness ==
  /\ fn = "detectPeaks"
  /\ arg = <<Int2Num(2), Int2Num(3), Int2Num(1), Int2Num(3), Int2Num(2)>>
  /\ ret = <<1, 3>>

MoodCategories == {"calm", "active", "stressed", "neutral"}

\* the threshold tests on the movements between consecutive frames
VariabilityTest(frameTensors) == Gt(MathStd(Movements(frameTensors)), Rat(2, 10))

MeanTest(frameTensors) == Gt(MathMean(Movements(frameTensors)), Rat(15, 100))

CalmTest(frameTensors) == Lt(MathMean(Movements(frameTensors)), Rat(5, 100))

\* C19: analyzeMood returns one of calm, active, stressed, neutral, and two
\* motion series that agree on the two threshold tests (variability > 0.2,
\* mean > 0.15) get the same mood
C19_MoodOfTwoTests ==
  fn = "analyzeMood" =>
    /\ ret.primary \in MoodCategories
    /\ (/\ prev /= <<>>
        /\ VariabilityTest(prev[1].arg) = VariabilityTest(arg)
        /\ MeanTest(prev[1].arg) = MeanTest(arg))
       => prev[1].ret.primary = ret.primary

\* C19, as the code has it: analyzeMood returns one of calm, active,
\* stressed, neutral; the mood is stressed or active when the variability
\* exceeds 0.2 (stressed when the mean exceeds 0.15), otherwise calm when the
\* mean is below 0.05 and neutral when it is not; two motion series that
\* agree on the three tests get the same mood
C19_MoodOfThreeTests ==
  fn = "analyzeMood" =>
    /\ ret.primary \in MoodCategories
    /\ ret.primary = IF VariabilityTest(arg)
                     THEN (IF MeanTest(arg) THEN "stressed" ELSE "active")
                     ELSE IF CalmTest(arg) THEN "calm" ELSE "neutral"
    /\ (/\ prev /= <<>>
        /\ VariabilityTest(prev[1].arg) = VariabilityTest(arg)
        /\ MeanTest(prev[1].arg) = MeanTest(arg)
        /\ CalmTest(prev[1].arg) = CalmTest(arg))
       => prev[1].ret.primary = ret.primary

\* two different recordings with steady small movement: they agree on the
\* three tests (low variability, mean between 0.05 and 0.15), both neutral
C19_Witness ==
  /\ fn = "analyzeMood"
  /\ prev /= <<>>
  /\ Len(prev[1].arg) = 2 /\ Len(arg) = 4
  /\ ~VariabilityTest(arg) /\ ~VariabilityTest(prev[1].arg)
  /\ ~MeanTest(arg) /\ ~MeanTest(prev[1].arg)
  /\ ~CalmTest(arg) /\ ~CalmTest(prev[1].arg)
  /\ prev[1].ret.primary = "neutral"
  /\ ret.primary = "neutral"

(***************************************************************************)
(* services/videoService.js: the frame source.  A frame path is modelled   *)
(* by the number of its frame, framePaths by the numbers in order.         *)
(***************************************************************************)
MAX_FRAMES == 40

\* for (let i = step; i < limit; i += step) sampledFrames.push(frames[i])
RECURSIVE SampleLoop(_, _, _, _, _)
SampleLoop(framePaths, step, limit, i, sampledFrames) ==
  IF i >= limit THEN sampledFrames
  ELSE SampleLoop(framePaths, step, limit, i + step,
                  Append(sampledFrames, framePaths[i + 1]))

\* a sampler whose loop runs to the end of the list
sampleFramesToEnd(framePaths) ==
  IF Len(framePaths) <= MAX_FRAMES THEN framePaths
  ELSE LET step == (Len(framePaths) + MAX_FRAMES - 1) \div MAX_FRAMES
       IN  Append(SampleLoop(framePaths, step, Len(framePaths), step,
                             <<framePaths[1]>>),
                  framePaths[Len(framePaths)])

\* step = Math.ceil(frames.length / MAX_FRAMES); the loop stops before
\* frames.length - step
sampleFrames(framePaths) ==
  IF Len(framePaths) <= MAX_FRAMES THEN framePaths
  ELSE LET step == (Len(framePaths) + MAX_FRAMES - 1) \div MAX_FRAMES
       IN  Append(SampleLoop(framePaths, step, Len(framePaths) - step, step,
                             <<framePaths[1]>>),
                  framePaths[Len(framePaths)])

MaxPaths == 130

InitFrames ==
  /\ pending \in {<<[f |-> "sampleFrames", x |-> [k \in 1..n |-> k]]>> :
                    n \in 0..MaxPaths}
  /\ NoCall

CallSampleFrames ==
  /\ Ready("sampleFrames")
  /\ Apply("sampleFrames", sampleFrames(Head(pending).x))

NextFrames == CallSampleFrames

SpecFrames == InitFrames /\ [][NextFrames]_vars

\* C20: for every list of n >= 1 frame paths sampleFrames returns at most 40
\* entries, in strictly increasing original order without duplicates, with
\* the first and the last frame, and the list itself when n <= 40
C20_SampleFramesBounded ==
  (fn = "sampleFrames" /\ Len(arg) >= 1) =>
    /\ Len(ret) <= 40
    /\ \A j \in 1..Len(ret) : ret[j] \in 1..Len(arg)
    /\ \A j \in 1..(Len(ret) - 1) : ret[j] < ret[j + 1]
    /\ ret[1] = arg[1]
    /\ ret[Len(ret)] = arg[Len(arg)]
    /\ (Len(arg) <= 40 => ret = arg)

\* 81 frames are sampled with step 3 to 27 frames: 1, 4, 7, ..., 76, 81
C20_Witness ==
  /\ fn = "sampleFrames"
  /\ Len(arg) = 81
  /\ Len(ret) = 27
  /\ ret[2] = 4 /\ ret[26] = 76 /\ ret[27] = 81

\* no two adjacent indices are both in the list of peaks
NoAdjacentPeaks(peaks) ==
  \A j \in 1..Len(peaks), k \in 1..Len(peaks) : peaks[k] /= peaks[j] + 1

\* C21: no two adjacent indices are both peaks, so a series of n samples has
\* at most floor((n - 1) / 2) peaks, and the heart rate reported by
\* calculateHeartRate never exceeds 150 bpm, whatever the input
C21_PeakDensity ==
  /\ fn = "detectPeaks" =>
       /\ NoAdjacentPeaks(ret)
       /\ Len(ret) <= (Len(arg) - 1) \div 2
  /\ fn = "calculateHeartRate" =>
       /\ Cardinality(PeakIndices(Channel(arg, 2))) <= (Len(arg) - 1) \div 2
       /\ ~Gt(ret.value, Int2Num(150))

\* C21, for series that have a sample: no two adjacent indices are both
\* peaks, a series of n >= 1 samples has at most floor((n - 1) / 2) peaks
\* (an empty series has none), and the heart rate reported by
\* calculateHeartRate never exceeds 150 bpm, whatever the input
C21_PeakDensityNonEmpty ==
  /\ fn = "detectPeaks" =>
       /\ NoAdjacentPeaks(ret)
       /\ Len(ret) <= (IF Len(arg) = 0 THEN 0 ELSE (Len(arg) - 1) \div 2)
  /\ fn = "calculateHeartRate" =>
       /\ Cardinality(PeakIndices(Channel(arg, 2)))
            <= (IF Len(arg) = 0 THEN 0 ELSE (Len(arg) - 1) \div 2)
       /\ ~Gt(ret.value, Int2Num(150))

\* five alternating samples have two peaks, floor(4 / 2), and the heart rate
\* 2 * 60 / 1 s is reported as 120
C21_Witness ==
  /\ fn = "calculateHeartRate"
  /\ Len(arg) = 5
  /\ Cardinality(PeakIndices(Channel(arg, 2))) = 2
  /\ ret.value = Int2Num(120)

\* C22: assessSignalQuality is called on the normalised red and infrared
\* series, so (where the series are numbers) its SNR term is 0 and its
\* stability term is 1 in exact arithmetic and the score is at most 0.6; the
\* confidence of the quality record and the confidence that calculateSpO2
\* returns are never "high" or "moderate"
C22_SpO2ConfidenceLow ==
  /\ pc = "calculatePerfusionIndex" =>
       /\ (\A i \in 1..Len(frame.redSignal) :
             IsFinite(frame.redSignal[i]) /\ IsFinite(frame.infraredSignal[i]))
          => /\ IsZero(frame.quality.metrics.snr)
             /\ NumEq(frame.quality.metrics.stability, Int2Num(1))
       /\ ~Gt(frame.quality.score, Rat(6, 10))
       /\ frame.quality.confidence \notin {"high", "moderate"}
  /\ pc = "return" => loc.spO2.confidence \notin {"high", "moderate"}

\* C23: the signalQuality object of calculateSignalQuality has no
\* variability field, so for every bundle of processVitalSigns the report's
\* overallConfidence.factors.measurementStability is "unstable"
C23_MeasurementUnstable ==
  /\ ("signalQuality" \in DOMAIN loc => "variability" \notin DOMAIN loc.signalQuality)
  /\ Reported =>
       response.body.report.reliability.overallConfidence.factors.measurementStability
         = "unstable"

\* a report for a five-frame video with a good signal (signal-to-noise above
\* 1.5): its measurement stability is "unstable" all the same
C23_Witness ==
  /\ Reported
  /\ Len(frames) = 5
  /\ loc.vitals.signalQuality.quality = "good"
  /\ response.body.report.reliability.overallConfidence.factors.signalStrength
       = "good"
  /\ response.body.report.reliability.overallConfidence.factors.measurementStability
       = "unstable"

====
